---- MODULE Spec2Model ----
(***************************************************************************)
(* Model of the alignment and difference engine of epub-checker:           *)
(*   src/epub_simple_diff_cli.py  (align, match_chapters)                  *)
(*   src/epub_diff_checker.py     (compare_paragraphs, match_chapters)     *)
(*   src/epub_diff_cli.py         (compare_paragraphs, match_chapters)     *)
(* Strings are sequences of one-character strings; Python's 0-based        *)
(* half-open index ranges are kept, so a[i] of the source is a[i+1] here.  *)
(* difflib.SequenceMatcher is modelled with isjunk = None and autojunk on, *)
(* as every call site constructs it.                                       *)
(***************************************************************************)
EXTENDS Integers, Sequences, FiniteSets, TLC

VARIABLES pc, p1, p2, variant, aligned, c1, c2, matched,
          left, right, out, st_min_similarity, calls

\* left, right: the two texts of a call on characters and out its return
\* value;
\* st_min_similarity: min_similarity of epub_diff_checker.py, the value of
\* its sidebar slider; calls: the number of calls of match_chapters and of the
\* aligners made so far
vars == <<pc, p1, p2, variant, aligned, c1, c2, matched,
          left, right, out, st_min_similarity, calls>>

(***************************************************************************)
(* Bounds of the model.                                                    *)
(***************************************************************************)
MaxParas == 3
MaxChapters == 2

(***************************************************************************)
(* Python values.                                                          *)
(***************************************************************************)
\* None where a paragraph text is expected (never a sequence of characters)
NoneText == <<"None">>
\* None where a 1-based paragraph index or a chapter index is expected
NoneIdx == -1
\* truthiness of an optional text: None and "" are both false
Truthy(x) == x # NoneText /\ x # <<>>

Max(x, y) == IF x >= y THEN x ELSE y
Min(x, y) == IF x <= y THEN x ELSE y

\* s[lo:hi] of Python for 0 <= lo, clamped at len(s)
Slice(s, lo, hi) ==
  LET h == IF hi > Len(s) THEN Len(s) ELSE hi
  IN  IF lo >= h THEN <<>> ELSE [k \in 1..(h - lo) |-> s[lo + k]]

(***************************************************************************)
(* The comparison key of a text unit: the text without its whitespace.     *)
(***************************************************************************)
IsSpace(c) == c \in {" ", "\n", "\t"}
normalize(text) == SelectSeq(text, LAMBDA c : ~IsSpace(c))
ContentEqual(x, y) == normalize(x) = normalize(y)

(***************************************************************************)
(* difflib.SequenceMatcher(None, a, b)                                     *)
(***************************************************************************)
\* __chain_b: if self.autojunk and n >= 200
AutojunkMinLength == 200

\* the popular elements of b, which __chain_b deletes from b2j: those
\* that occur more than n // 100 + 1 times when n >= 200
popular_of(b) ==
  IF Len(b) >= AutojunkMinLength
  THEN LET ntest == (Len(b) \div 100) + 1
       IN  {elt \in {b[j] : j \in 1..Len(b)} :
              Cardinality({j \in 1..Len(b) : b[j] = elt}) > ntest}
  ELSE {}

\* j2len[j] while the outer loop of find_longest_match is at i: the length
\* of the longest common run of elements of b2j inside a[alo:], b[blo:]
\* ending at a[i], b[j]
RECURSIVE j2len_at(_, _, _, _, _, _, _)
j2len_at(a, b, popular, alo, blo, i, j) ==
  IF i < alo \/ j < blo THEN 0
  ELSE IF a[i + 1] # b[j + 1] \/ b[j + 1] \in popular THEN 0
  ELSE 1 + j2len_at(a, b, popular, alo, blo, i - 1, j - 1)

\* e is scanned before f by: for i in range(alo, ahi): for j in b2j[a[i]]
ScannedBefore(e, f) == e[1] < f[1] \/ (e[1] = f[1] /\ e[2] <= f[2])

\* the number of turns of: while besti > alo and bestj > blo and not
\* isbjunk(b[bestj-1]) and a[besti-1] == b[bestj-1]; with isjunk = None
\* nothing is junk
extend_backward(a, b, alo, blo, besti, bestj) ==
  LET most == Min(besti - alo, bestj - blo)
      equal(n) == a[(besti - n) + 1] = b[(bestj - n) + 1]
  IN  CHOOSE n \in 0..most :
        /\ \A m \in 1..n : equal(m)
        /\ n = most \/ ~equal(n + 1)

\* the number of turns of: while besti+bestsize < ahi and bestj+bestsize <
\* bhi and not isbjunk(b[bestj+bestsize]) and
\* a[besti+bestsize] == b[bestj+bestsize]
extend_forward(a, b, ahi, bhi, aend, bend) ==
  LET most == Min(ahi - aend, bhi - bend)
      equal(n) == a[(aend + n - 1) + 1] = b[(bend + n - 1) + 1]
  IN  CHOOSE n \in 0..most :
        /\ \A m \in 1..n : equal(m)
        /\ n = most \/ ~equal(n + 1)

\* the run best = <<besti, bestj, bestsize>> extended over equal elements
\* on both sides
extended(a, b, alo, ahi, blo, bhi, best) ==
  <<best[1] - extend_backward(a, b, alo, blo, best[1], best[2]),
    best[2] - extend_backward(a, b, alo, blo, best[1], best[2]),
    best[3] + extend_backward(a, b, alo, blo, best[1], best[2])
            + extend_forward(a, b, ahi, bhi, best[1] + best[3], best[2] + best[3])>>

\* besti, bestj, bestsize start as alo, blo, 0 and are replaced only when
\* k > bestsize: the first run, in scan order, of greatest length among the
\* elements left in b2j
longest_run(a, b, popular, alo, ahi, blo, bhi) ==
  LET ends == {e \in (alo..(ahi - 1)) \X (blo..(bhi - 1)) :
                 b[e[2] + 1] \notin popular /\ a[e[1] + 1] = b[e[2] + 1]}
      k(e) == j2len_at(a, b, popular, alo, blo, e[1], e[2])
  IN  IF ends = {} THEN <<alo, blo, 0>>
      ELSE LET sizes == {k(e) : e \in ends}
               bestsize == CHOOSE n \in sizes : \A m \in sizes : m <= n
               longest == {e \in ends : k(e) = bestsize}
               first == CHOOSE e \in longest : \A f \in longest : ScannedBefore(e, f)
           IN  <<first[1] - bestsize + 1, first[2] - bestsize + 1, bestsize>>

\* the longest run of b2j, then extended; popular and best are each
\* computed once
find_longest_match(a, b, alo, ahi, blo, bhi) ==
  CHOOSE x \in {extended(a, b, alo, ahi, blo, bhi, best) :
                 best \in {longest_run(a, b, popular, alo, ahi, blo, bhi) :
                            popular \in {popular_of(b)}}} : TRUE

\* the queue loop of get_matching_blocks followed by matching_blocks.sort():
\* the blocks left of the match x sort before it and those right of it
\* after it
RECURSIVE blocks_in(_, _, _, _, _, _)
RECURSIVE blocks_around(_, _, _, _, _, _, _)
blocks_around(a, b, alo, ahi, blo, bhi, x) ==
  IF x[3] = 0 THEN <<>>
  ELSE (IF alo < x[1] /\ blo < x[2]
        THEN blocks_in(a, b, alo, x[1], blo, x[2]) ELSE <<>>)
       \o <<x>>
       \o (IF x[1] + x[3] < ahi /\ x[2] + x[3] < bhi
           THEN blocks_in(a, b, x[1] + x[3], ahi, x[2] + x[3], bhi) ELSE <<>>)

\* x = self.find_longest_match(alo, ahi, blo, bhi), computed once
blocks_in(a, b, alo, ahi, blo, bhi) ==
  CHOOSE blocks \in {blocks_around(a, b, alo, ahi, blo, bhi, x) :
                      x \in {find_longest_match(a, b, alo, ahi, blo, bhi)}} : TRUE

\* the loop of get_matching_blocks that merges adjacent blocks
RECURSIVE collapse(_, _, _, _)
collapse(blocks, n, cur, acc) ==
  IF n > Len(blocks)
  THEN IF cur[3] # 0 THEN Append(acc, cur) ELSE acc
  ELSE LET x == blocks[n]
       IN  IF cur[1] + cur[3] = x[1] /\ cur[2] + cur[3] = x[2]
           THEN collapse(blocks, n + 1, <<cur[1], cur[2], cur[3] + x[3]>>, acc)
           ELSE collapse(blocks, n + 1, x,
                         IF cur[3] # 0 THEN Append(acc, cur) ELSE acc)

get_matching_blocks(a, b) ==
  Append(collapse(blocks_in(a, b, 0, Len(a), 0, Len(b)), 1, <<0, 0, 0>>, <<>>),
         <<Len(a), Len(b), 0>>)

\* get_opcodes with the tags of the one-sided gaps exchanged
RECURSIVE opcodes_from_swapped(_, _, _, _, _)
opcodes_from_swapped(blocks, n, i, j, answer) ==
  IF n > Len(blocks) THEN answer
  ELSE LET ai == blocks[n][1]
           bj == blocks[n][2]
           size == blocks[n][3]
           tag == IF i < ai /\ j < bj THEN "replace"
                  ELSE IF i < ai THEN "insert"
                  ELSE IF j < bj THEN "delete"
                  ELSE ""
           a1 == IF tag # "" THEN Append(answer, <<tag, i, ai, j, bj>>) ELSE answer
           a2 == IF size # 0
                 THEN Append(a1, <<"equal", ai, ai + size, bj, bj + size>>) ELSE a1
       IN  opcodes_from_swapped(blocks, n + 1, ai + size, bj + size, a2)

\* the loop of get_opcodes over the matching blocks
RECURSIVE opcodes_from(_, _, _, _, _)
opcodes_from(blocks, n, i, j, answer) ==
  IF n > Len(blocks) THEN answer
  ELSE LET ai == blocks[n][1]
           bj == blocks[n][2]
           size == blocks[n][3]
           tag == IF i < ai /\ j < bj THEN "replace"
                  ELSE IF i < ai THEN "delete"
                  ELSE IF j < bj THEN "insert"
                  ELSE ""
           a1 == IF tag # "" THEN Append(answer, <<tag, i, ai, j, bj>>) ELSE answer
           a2 == IF size # 0
                 THEN Append(a1, <<"equal", ai, ai + size, bj, bj + size>>) ELSE a1
       IN  opcodes_from(blocks, n + 1, ai + size, bj + size, a2)

get_opcodes(a, b) == opcodes_from(get_matching_blocks(a, b), 1, 0, 0, <<>>)

RECURSIVE sum_sizes(_, _)
sum_sizes(blocks, n) ==
  IF n > Len(blocks) THEN 0 ELSE blocks[n][3] + sum_sizes(blocks, n + 1)

\* ratio over twice the length of the first sequence
ratio_of_first(a, b) ==
  LET matches == sum_sizes(get_matching_blocks(a, b), 1)
      length == Len(a) + Len(a)
  IN  IF length # 0 THEN <<2 * matches, length>> ELSE <<1, 1>>

\* ratio that counts each matched element once
ratio_counts_once(a, b) ==
  LET matches == sum_sizes(get_matching_blocks(a, b), 1)
      length == Len(a) + Len(b)
  IN  IF length # 0 THEN <<matches, length>> ELSE <<1, 1>>

\* SequenceMatcher.ratio(): 2.0*matches/length, 1.0 when length is 0; kept
\* as the exact fraction <<numerator, denominator>>
ratio(a, b) ==
  LET matches == sum_sizes(get_matching_blocks(a, b), 1)
      length == Len(a) + Len(b)
  IN  IF length # 0 THEN <<2 * matches, length>> ELSE <<1, 1>>

\* r > s on fractions with positive denominators
RatioGT(r, s) == r[1] * s[2] > s[1] * r[2]

(***************************************************************************)
(* epub_simple_diff_cli.py: align                                          *)
(***************************************************************************)
\* the loop over a replace block: for k in range(max(len(old), len(new)))
RECURSIVE align_replace(_, _, _, _, _, _)
align_replace(old, new, i1, j1, k, acc) ==
  IF k >= Max(Len(old), Len(new)) THEN acc
  ELSE LET op_ == IF k < Len(old) THEN old[k + 1] ELSE NoneText
           np_ == IF k < Len(new) THEN new[k + 1] ELSE NoneText
           row == IF Truthy(op_) /\ Truthy(np_)
                  THEN <<"mod", op_, np_, i1 + k + 1, j1 + k + 1>>
                  ELSE IF Truthy(op_)
                  THEN <<"del", op_, NoneText, i1 + k + 1, NoneIdx>>
                  ELSE <<"add", NoneText, np_, NoneIdx, j1 + k + 1>>
       IN  align_replace(old, new, i1, j1, k + 1, Append(acc, row))

\* align_block whose equal rows carry the 0-based indexes
align_block_zero_based(a, b, oc) ==
  LET op == oc[1]
      i1 == oc[2]
      i2 == oc[3]
      j1 == oc[4]
      j2 == oc[5]
  IN  IF op = "equal"
      THEN [n \in 1..(i2 - i1) |->
              <<"same", a[i1 + (n - 1) + 1], b[j1 + (n - 1) + 1],
                i1 + (n - 1), j1 + (n - 1)>>]
      ELSE IF op = "delete"
      THEN [n \in 1..(i2 - i1) |->
              <<"del", a[i1 + n], NoneText, (i1 + n - 1) + 1, NoneIdx>>]
      ELSE IF op = "insert"
      THEN [n \in 1..(j2 - j1) |->
              <<"add", NoneText, b[j1 + n], NoneIdx, (j1 + n - 1) + 1>>]
      ELSE IF op = "replace"
      THEN align_replace(Slice(a, i1, i2), Slice(b, j1, j2), i1, j1, 0, <<>>)
      ELSE <<>>

\* the rows one opcode appends to aligned
align_block(a, b, oc) ==
  LET op == oc[1]
      i1 == oc[2]
      i2 == oc[3]
      j1 == oc[4]
      j2 == oc[5]
  IN  IF op = "equal"
      THEN [n \in 1..(i2 - i1) |->
              <<"same", a[i1 + (n - 1) + 1], b[j1 + (n - 1) + 1],
                i1 + (n - 1) + 1, j1 + (n - 1) + 1>>]
      ELSE IF op = "delete"
      THEN [n \in 1..(i2 - i1) |->
              <<"del", a[i1 + n], NoneText, (i1 + n - 1) + 1, NoneIdx>>]
      ELSE IF op = "insert"
      THEN [n \in 1..(j2 - j1) |->
              <<"add", NoneText, b[j1 + n], NoneIdx, (j1 + n - 1) + 1>>]
      ELSE IF op = "replace"
      THEN align_replace(Slice(a, i1, i2), Slice(b, j1, j2), i1, j1, 0, <<>>)
      ELSE <<>>

RECURSIVE align_loop(_, _, _, _, _)
align_loop(a, b, ocs, n, acc) ==
  IF n > Len(ocs) THEN acc
  ELSE align_loop(a, b, ocs, n + 1, acc \o align_block(a, b, ocs[n]))

\* align whose opcode generator compares the comparison keys of the units
align_by_key(a, b) ==
  align_loop(a, b,
             get_opcodes([n \in 1..Len(a) |-> normalize(a[n])],
                         [n \in 1..Len(b) |-> normalize(b[n])]), 1, <<>>)

align(a, b) == align_loop(a, b, get_opcodes(a, b), 1, <<>>)

(***************************************************************************)
(* epub_diff_cli.py: compare_paragraphs(paras1, paras2, min_similarity)    *)
(***************************************************************************)
Same(old, new, oi, ni) ==
  [type |-> "same", old |-> old, new |-> new, old_idx |-> oi, new_idx |-> ni]
Deleted(old, oi) ==
  [type |-> "deleted", old |-> old, new |-> NoneText, old_idx |-> oi, new_idx |-> NoneIdx]
Added(new, ni) ==
  [type |-> "added", old |-> NoneText, new |-> new, old_idx |-> NoneIdx, new_idx |-> ni]
Modified(old, new, oi, ni, sim) ==
  [type |-> "modified", old |-> old, new |-> new, old_idx |-> oi, new_idx |-> ni,
   similarity |-> sim]

\* cp_pair that reports a dissimilar pair as its Deleted op alone
cp_pair_drops_added(old_p, new_p, oi, ni, min_similarity) ==
  IF Truthy(old_p) /\ Truthy(new_p)
  THEN LET r == ratio(old_p, new_p)
       IN  IF RatioGT(r, min_similarity)
           THEN <<Modified(old_p, new_p, oi, ni, r)>>
           ELSE <<Deleted(old_p, oi)>>
  ELSE IF Truthy(old_p) THEN <<Deleted(old_p, oi)>>
  ELSE IF Truthy(new_p) THEN <<Added(new_p, ni)>>
  ELSE <<>>

\* cp_pair that takes a similarity equal to the threshold as modified
cp_pair_at_least(old_p, new_p, oi, ni, min_similarity) ==
  IF Truthy(old_p) /\ Truthy(new_p)
  THEN LET r == ratio(old_p, new_p)
       IN  IF ~RatioGT(min_similarity, r)
           THEN <<Modified(old_p, new_p, oi, ni, r)>>
           ELSE <<Deleted(old_p, oi), Added(new_p, ni)>>
  ELSE IF Truthy(old_p) THEN <<Deleted(old_p, oi)>>
  ELSE IF Truthy(new_p) THEN <<Added(new_p, ni)>>
  ELSE <<>>

\* cp_pair whose Modified op carries the threshold in place of the ratio
cp_pair_stores_threshold(old_p, new_p, oi, ni, min_similarity) ==
  IF Truthy(old_p) /\ Truthy(new_p)
  THEN LET r == ratio(old_p, new_p)
       IN  IF RatioGT(r, min_similarity)
           THEN <<Modified(old_p, new_p, oi, ni, min_similarity)>>
           ELSE <<Deleted(old_p, oi), Added(new_p, ni)>>
  ELSE IF Truthy(old_p) THEN <<Deleted(old_p, oi)>>
  ELSE IF Truthy(new_p) THEN <<Added(new_p, ni)>>
  ELSE <<>>

\* the rows one offset of a replace block appends to results
cp_pair(old_p, new_p, oi, ni, min_similarity) ==
  IF Truthy(old_p) /\ Truthy(new_p)
  THEN LET r == ratio(old_p, new_p)
       IN  IF RatioGT(r, min_similarity)
           THEN <<Modified(old_p, new_p, oi, ni, r)>>
           ELSE <<Deleted(old_p, oi), Added(new_p, ni)>>
  ELSE IF Truthy(old_p) THEN <<Deleted(old_p, oi)>>
  ELSE IF Truthy(new_p) THEN <<Added(new_p, ni)>>
  ELSE <<>>

\* cp_replace that numbers the new side with the offset of the old side
RECURSIVE cp_replace_old_offset(_, _, _, _, _, _, _)
cp_replace_old_offset(old_paras, new_paras, i1, j1, idx, min_similarity, acc) ==
  IF idx >= Max(Len(old_paras), Len(new_paras)) THEN acc
  ELSE LET old_p == IF idx < Len(old_paras) THEN old_paras[idx + 1] ELSE NoneText
           new_p == IF idx < Len(new_paras) THEN new_paras[idx + 1] ELSE NoneText
       IN  cp_replace_old_offset(old_paras, new_paras, i1, j1, idx + 1, min_similarity,
                      acc \o cp_pair(old_p, new_p, i1 + idx + 1, i1 + idx + 1,
                                     min_similarity))

\* cp_replace that puts the results of each offset before those of the
\* offsets already processed
RECURSIVE cp_replace_prepends(_, _, _, _, _, _, _)
cp_replace_prepends(old_paras, new_paras, i1, j1, idx, min_similarity, acc) ==
  IF idx >= Max(Len(old_paras), Len(new_paras)) THEN acc
  ELSE LET old_p == IF idx < Len(old_paras) THEN old_paras[idx + 1] ELSE NoneText
           new_p == IF idx < Len(new_paras) THEN new_paras[idx + 1] ELSE NoneText
       IN  cp_replace_prepends(old_paras, new_paras, i1, j1, idx + 1, min_similarity,
                      cp_pair(old_p, new_p, i1 + idx + 1, j1 + idx + 1,
                              min_similarity) \o acc)

\* the loop over a replace block: for idx in range(max_len)
RECURSIVE cp_replace(_, _, _, _, _, _, _)
cp_replace(old_paras, new_paras, i1, j1, idx, min_similarity, acc) ==
  IF idx >= Max(Len(old_paras), Len(new_paras)) THEN acc
  ELSE LET old_p == IF idx < Len(old_paras) THEN old_paras[idx + 1] ELSE NoneText
           new_p == IF idx < Len(new_paras) THEN new_paras[idx + 1] ELSE NoneText
       IN  cp_replace(old_paras, new_paras, i1, j1, idx + 1, min_similarity,
                      acc \o cp_pair(old_p, new_p, i1 + idx + 1, j1 + idx + 1,
                                     min_similarity))

\* the results one opcode appends
cp_block(paras1, paras2, oc, min_similarity) ==
  LET opcode == oc[1]
      i1 == oc[2]
      i2 == oc[3]
      j1 == oc[4]
      j2 == oc[5]
  IN  IF opcode = "equal"
      THEN [n \in 1..(i2 - i1) |->
              LET idx == i1 + n - 1
              IN  Same(paras1[idx + 1], paras2[(idx - i1 + j1) + 1],
                       idx + 1, idx - i1 + j1 + 1)]
      ELSE IF opcode = "delete"
      THEN [n \in 1..(i2 - i1) |->
              LET idx == i1 + n - 1 IN Deleted(paras1[idx + 1], idx + 1)]
      ELSE IF opcode = "insert"
      THEN [n \in 1..(j2 - j1) |->
              LET idx == j1 + n - 1 IN Added(paras2[idx + 1], idx + 1)]
      ELSE IF opcode = "replace"
      THEN cp_replace(Slice(paras1, i1, i2), Slice(paras2, j1, j2), i1, j1, 0,
                      min_similarity, <<>>)
      ELSE <<>>

RECURSIVE cp_loop(_, _, _, _, _, _)
cp_loop(paras1, paras2, ocs, n, min_similarity, acc) ==
  IF n > Len(ocs) THEN acc
  ELSE cp_loop(paras1, paras2, ocs, n + 1, min_similarity,
               acc \o cp_block(paras1, paras2, ocs[n], min_similarity))

compare_paragraphs(paras1, paras2, min_similarity) ==
  cp_loop(paras1, paras2, get_opcodes(paras1, paras2), 1, min_similarity, <<>>)

\* default of the min_similarity parameter; no caller passes another value
DefaultMinSimilarity == <<1, 2>>

(***************************************************************************)
(* epub_diff_checker.py: compare_paragraphs(paras1, paras2); the same      *)
(* loop with the literal 0.5 in the comparison of the replace branch       *)
(***************************************************************************)
LikelyModified == <<1, 2>>

\* st.sidebar.slider("Min. similarity untuk 'modified'", 0.3, 0.9, 0.5)
SliderMin == <<3, 10>>
SliderMax == <<9, 10>>
SliderDefault == <<1, 2>>

\* the ends of the slider and its default
SliderValues == {SliderMin, SliderDefault, SliderMax}

st_compare_paragraphs(paras1, paras2) ==
  cp_loop(paras1, paras2, get_opcodes(paras1, paras2), 1, LikelyModified, <<>>)

(***************************************************************************)
(* epub_simple_diff_cli.py: highlight_diff                                 *)
(***************************************************************************)
\* html.escape(s) on one character: & < > " ' become their entities
escape_char(c) ==
  IF c = "&" THEN <<"&", "a", "m", "p", ";">>
  ELSE IF c = "<" THEN <<"&", "l", "t", ";">>
  ELSE IF c = ">" THEN <<"&", "g", "t", ";">>
  ELSE IF c = "\"" THEN <<"&", "q", "u", "o", "t", ";">>
  ELSE IF c = "'" THEN <<"&", "#", "x", "2", "7", ";">>
  ELSE <<c>>

RECURSIVE escape(_)
escape(s) == IF s = <<>> THEN <<>> ELSE escape_char(Head(s)) \o escape(Tail(s))

MarkOpen == <<"<", "m", "a", "r", "k", ">">>
MarkClose == <<"<", "/", "m", "a", "r", "k", ">">>

\* f'<mark>{x}</mark>'
mark(x) == MarkOpen \o x \o MarkClose

\* ''.join(pieces)
RECURSIVE concat(_)
concat(pieces) ==
  IF pieces = <<>> THEN <<>> ELSE Head(pieces) \o concat(Tail(pieces))

\* hd_block that appends nothing for a delete range
hd_block_drops_delete(t1, t2, oc, o) ==
  LET op == oc[1]
      i1 == oc[2]
      i2 == oc[3]
      j1 == oc[4]
      j2 == oc[5]
  IN  IF op = "equal"
      THEN [o1 |-> Append(o.o1, escape(Slice(t1, i1, i2))),
            o2 |-> Append(o.o2, escape(Slice(t2, j1, j2)))]
      ELSE IF op = "delete"
      THEN o
      ELSE IF op = "insert"
      THEN [o1 |-> o.o1, o2 |-> Append(o.o2, mark(escape(Slice(t2, j1, j2))))]
      ELSE IF op = "replace"
      THEN [o1 |-> Append(o.o1, mark(escape(Slice(t1, i1, i2)))),
            o2 |-> Append(o.o2, mark(escape(Slice(t2, j1, j2))))]
      ELSE o

\* hd_block that copies the new side of a replace range without the mark
hd_block_unmarked_replace(t1, t2, oc, o) ==
  LET op == oc[1]
      i1 == oc[2]
      i2 == oc[3]
      j1 == oc[4]
      j2 == oc[5]
  IN  IF op = "equal"
      THEN [o1 |-> Append(o.o1, escape(Slice(t1, i1, i2))),
            o2 |-> Append(o.o2, escape(Slice(t2, j1, j2)))]
      ELSE IF op = "delete"
      THEN [o1 |-> Append(o.o1, mark(escape(Slice(t1, i1, i2)))), o2 |-> o.o2]
      ELSE IF op = "insert"
      THEN [o1 |-> o.o1, o2 |-> Append(o.o2, mark(escape(Slice(t2, j1, j2))))]
      ELSE IF op = "replace"
      THEN [o1 |-> Append(o.o1, mark(escape(Slice(t1, i1, i2)))),
            o2 |-> Append(o.o2, escape(Slice(t2, j1, j2)))]
      ELSE o

\* the pieces one opcode appends to o1 and o2
hd_block(t1, t2, oc, o) ==
  LET op == oc[1]
      i1 == oc[2]
      i2 == oc[3]
      j1 == oc[4]
      j2 == oc[5]
  IN  IF op = "equal"
      THEN [o1 |-> Append(o.o1, escape(Slice(t1, i1, i2))),
            o2 |-> Append(o.o2, escape(Slice(t2, j1, j2)))]
      ELSE IF op = "delete"
      THEN [o1 |-> Append(o.o1, mark(escape(Slice(t1, i1, i2)))), o2 |-> o.o2]
      ELSE IF op = "insert"
      THEN [o1 |-> o.o1, o2 |-> Append(o.o2, mark(escape(Slice(t2, j1, j2))))]
      ELSE IF op = "replace"
      THEN [o1 |-> Append(o.o1, mark(escape(Slice(t1, i1, i2)))),
            o2 |-> Append(o.o2, mark(escape(Slice(t2, j1, j2))))]
      ELSE o

RECURSIVE hd_loop(_, _, _, _, _)
hd_loop(t1, t2, ocs, n, o) ==
  IF n > Len(ocs) THEN o
  ELSE hd_loop(t1, t2, ocs, n + 1, hd_block(t1, t2, ocs[n], o))

\* highlight_diff without the return for identical texts
highlight_diff_no_shortcut(t1, t2) ==
  LET o == hd_loop(t1, t2, get_opcodes(t1, t2), 1, [o1 |-> <<>>, o2 |-> <<>>])
  IN  <<concat(o.o1), concat(o.o2), TRUE>>

\* returns <<left rendering, right rendering, changed>>
highlight_diff(t1, t2) ==
  IF t1 = t2 THEN <<escape(t1), escape(t2), FALSE>>
  ELSE LET o == hd_loop(t1, t2, get_opcodes(t1, t2), 1, [o1 |-> <<>>, o2 |-> <<>>])
       IN  <<concat(o.o1), concat(o.o2), TRUE>>

(***************************************************************************)
(* epub_diff_checker.py: get_diff_html (epub_diff_cli.py: other class      *)
(* names in the spans, the same function otherwise)                        *)
(***************************************************************************)
\* '<span class="diff-removed">', '<span class="diff-added">', '</span>'
SpanRemoved ==
  <<"<", "s", "p", "a", "n", " ", "c", "l", "a", "s", "s", "=", "\"", "d",
    "i", "f", "f", "-", "r", "e", "m", "o", "v", "e", "d", "\"", ">">>
SpanAdded ==
  <<"<", "s", "p", "a", "n", " ", "c", "l", "a", "s", "s", "=", "\"", "d",
    "i", "f", "f", "-", "a", "d", "d", "e", "d", "\"", ">">>
SpanClose ==
  <<"<", "/", "s", "p", "a", "n", ">">>

removed(x) == SpanRemoved \o x \o SpanClose
added(x) == SpanAdded \o x \o SpanClose

\* the pieces one opcode appends to output
gd_block(text1, text2, oc) ==
  LET opcode == oc[1]
      i1 == oc[2]
      i2 == oc[3]
      j1 == oc[4]
      j2 == oc[5]
  IN  IF opcode = "equal" THEN <<escape(Slice(text1, i1, i2))>>
      ELSE IF opcode = "delete" THEN <<removed(escape(Slice(text1, i1, i2)))>>
      ELSE IF opcode = "insert" THEN <<added(escape(Slice(text2, j1, j2)))>>
      ELSE IF opcode = "replace"
      THEN <<removed(escape(Slice(text1, i1, i2))),
             added(escape(Slice(text2, j1, j2)))>>
      ELSE <<>>

RECURSIVE gd_loop(_, _, _, _, _)
gd_loop(text1, text2, ocs, n, output) ==
  IF n > Len(ocs) THEN output
  ELSE gd_loop(text1, text2, ocs, n + 1, output \o gd_block(text1, text2, ocs[n]))

\* returns <<html, status>>, the html None for identical texts
get_diff_html(text1, text2) ==
  IF text1 = text2 THEN <<NoneText, "same">>
  ELSE <<concat(gd_loop(text1, text2, get_opcodes(text1, text2), 1, <<>>)),
         "different">>

(***************************************************************************)
(* The novelty classifier: is_new(p) against the paragraphs of the         *)
(* baseline document.                                                      *)
(***************************************************************************)
NoveltyThreshold == <<1, 2>>
NoveltyScanCap == 500
MinSegmentLength == 10
ContainedConfidence == <<9, 10>>
Certain == <<1, 1>>

Terminators == {".", "!", "?"}

\* the segments of p between sentence terminators; cur is the segment
\* being read
RECURSIVE split_from(_, _, _)
split_from(p, n, cur) ==
  IF n > Len(p) THEN (IF cur = <<>> THEN <<>> ELSE <<cur>>)
  ELSE IF p[n] \in Terminators
  THEN (IF cur = <<>> THEN <<>> ELSE <<cur>>) \o split_from(p, n + 1, <<>>)
  ELSE split_from(p, n + 1, Append(cur, p[n]))

split_sentences(p) == split_from(p, 1, <<>>)

\* x appears verbatim inside y
contained(x, y) ==
  \E k \in 0..(Len(y) - Len(x)) : \A m \in 1..Len(x) : y[k + m] = x[m]

\* the keys of the whole paragraphs and of their sentence splits
reference_index(baseline) ==
  {normalize(baseline[n]) : n \in 1..Len(baseline)} \cup
  UNION {{normalize(split_sentences(baseline[n])[m]) :
            m \in 1..Len(split_sentences(baseline[n]))} : n \in 1..Len(baseline)}

\* qualifying that keeps the segments of every length
qualifying_all(p) ==
  SelectSeq(split_sentences(p), LAMBDA sg : Len(normalize(sg)) >= 0)

\* the segments of p that are compared: at least 10 normalized characters
qualifying(p) ==
  SelectSeq(split_sentences(p), LAMBDA sg : Len(normalize(sg)) >= MinSegmentLength)

\* exact presence in the reference set, or containment within one of the
\* first 500 baseline paragraphs
sentence_matched(sg, baseline) ==
  \/ normalize(sg) \in reference_index(baseline)
  \/ LET scanned == Slice(baseline, 0, NoveltyScanCap)
     IN  \E n \in 1..Len(scanned) : contained(normalize(sg), normalize(scanned[n]))

matched_sentences(p, baseline) ==
  Len(SelectSeq(qualifying(p), LAMBDA sg : sentence_matched(sg, baseline)))

\* returns <<new, confidence>>
is_new(p, baseline) ==
  LET norm == normalize(p)
      total_sentences == Len(qualifying(p))
      score == <<matched_sentences(p, baseline), total_sentences>>
  IN  IF norm \in reference_index(baseline) THEN <<FALSE, Certain>>
      ELSE IF \E n \in 1..Len(baseline) :
                \/ contained(norm, normalize(baseline[n]))
                \/ contained(normalize(baseline[n]), norm)
      THEN <<FALSE, ContainedConfidence>>
      ELSE IF total_sentences = 0 THEN <<FALSE, Certain>>
      ELSE <<RatioGT(NoveltyThreshold, score), score>>

(***************************************************************************)
(* match_chapters (the three files carry the same function)                *)
(***************************************************************************)
\* '\n'.join(paragraphs)
RECURSIVE Join(_)
Join(paras) ==
  IF Len(paras) = 0 THEN <<>>
  ELSE IF Len(paras) = 1 THEN paras[1]
  ELSE paras[1] \o <<"\n">> \o Join(Tail(paras))

\* the dict extract_epub appends for a document with paragraphs
Chapter(title, paragraphs) ==
  [title |-> title, paragraphs |-> paragraphs, full_text |-> Join(paragraphs)]

ChapterPrefixLength == 500
ChapterMatchThreshold == <<3, 10>>
Zero == <<0, 1>>

\* the inner loop without the test of used_j
RECURSIVE scan_chapters2_ignores_used(_, _, _, _, _, _)
scan_chapters2_ignores_used(ch1, chapters2, j, used_j, best_match, best_score) ==
  IF j >= Len(chapters2) THEN best_match
  ELSE LET ch2 == chapters2[j + 1]
       IN  IF ch1.title = ch2.title
           THEN j
           ELSE LET r == ratio(Slice(ch1.full_text, 0, ChapterPrefixLength),
                               Slice(ch2.full_text, 0, ChapterPrefixLength))
                IN  IF RatioGT(r, best_score) /\ RatioGT(r, ChapterMatchThreshold)
                    THEN scan_chapters2_ignores_used(ch1, chapters2, j + 1, used_j, j, r)
                    ELSE scan_chapters2_ignores_used(ch1, chapters2, j + 1, used_j, best_match, best_score)

\* the inner loop that goes on scanning after an equal title
RECURSIVE scan_chapters2_no_break(_, _, _, _, _, _)
scan_chapters2_no_break(ch1, chapters2, j, used_j, best_match, best_score) ==
  IF j >= Len(chapters2) THEN best_match
  ELSE LET ch2 == chapters2[j + 1]
       IN  IF j \in used_j
           THEN scan_chapters2_no_break(ch1, chapters2, j + 1, used_j, best_match, best_score)
           ELSE IF ch1.title = ch2.title
           THEN scan_chapters2_no_break(ch1, chapters2, j + 1, used_j, j, best_score)
           ELSE LET r == ratio(Slice(ch1.full_text, 0, ChapterPrefixLength),
                               Slice(ch2.full_text, 0, ChapterPrefixLength))
                IN  IF RatioGT(r, best_score) /\ RatioGT(r, ChapterMatchThreshold)
                    THEN scan_chapters2_no_break(ch1, chapters2, j + 1, used_j, j, r)
                    ELSE scan_chapters2_no_break(ch1, chapters2, j + 1, used_j, best_match, best_score)

\* the inner loop that accepts a similarity equal to the threshold
RECURSIVE scan_chapters2_at_least(_, _, _, _, _, _)
scan_chapters2_at_least(ch1, chapters2, j, used_j, best_match, best_score) ==
  IF j >= Len(chapters2) THEN best_match
  ELSE LET ch2 == chapters2[j + 1]
       IN  IF j \in used_j
           THEN scan_chapters2_at_least(ch1, chapters2, j + 1, used_j, best_match, best_score)
           ELSE IF ch1.title = ch2.title
           THEN j
           ELSE LET r == ratio(Slice(ch1.full_text, 0, ChapterPrefixLength),
                               Slice(ch2.full_text, 0, ChapterPrefixLength))
                IN  IF RatioGT(r, best_score) /\ ~RatioGT(ChapterMatchThreshold, r)
                    THEN scan_chapters2_at_least(ch1, chapters2, j + 1, used_j, j, r)
                    ELSE scan_chapters2_at_least(ch1, chapters2, j + 1, used_j, best_match, best_score)

\* the inner loop that looks at the similarity before the title
RECURSIVE scan_chapters2_similarity_first(_, _, _, _, _, _)
scan_chapters2_similarity_first(ch1, chapters2, j, used_j, best_match, best_score) ==
  IF j >= Len(chapters2) THEN best_match
  ELSE LET ch2 == chapters2[j + 1]
           r == ratio(Slice(ch1.full_text, 0, ChapterPrefixLength),
                      Slice(ch2.full_text, 0, ChapterPrefixLength))
       IN  IF j \in used_j
           THEN scan_chapters2_similarity_first(ch1, chapters2, j + 1, used_j, best_match, best_score)
           ELSE IF RatioGT(r, best_score) /\ RatioGT(r, ChapterMatchThreshold)
           THEN scan_chapters2_similarity_first(ch1, chapters2, j + 1, used_j, j, r)
           ELSE IF ch1.title = ch2.title
           THEN j
           ELSE scan_chapters2_similarity_first(ch1, chapters2, j + 1, used_j, best_match, best_score)

\* the inner loop: for j, ch2 in enumerate(chapters2), from j on
RECURSIVE scan_chapters2(_, _, _, _, _, _)
scan_chapters2(ch1, chapters2, j, used_j, best_match, best_score) ==
  IF j >= Len(chapters2) THEN best_match
  ELSE LET ch2 == chapters2[j + 1]
       IN  IF j \in used_j
           THEN scan_chapters2(ch1, chapters2, j + 1, used_j, best_match, best_score)
           ELSE IF ch1.title = ch2.title
           THEN j
           ELSE LET r == ratio(Slice(ch1.full_text, 0, ChapterPrefixLength),
                               Slice(ch2.full_text, 0, ChapterPrefixLength))
                IN  IF RatioGT(r, best_score) /\ RatioGT(r, ChapterMatchThreshold)
                    THEN scan_chapters2(ch1, chapters2, j + 1, used_j, j, r)
                    ELSE scan_chapters2(ch1, chapters2, j + 1, used_j,
                                        best_match, best_score)

\* the outer loop: for i, ch1 in enumerate(chapters1), from i on
RECURSIVE match_old(_, _, _, _, _)
match_old(chapters1, chapters2, i, used_j, acc) ==
  IF i >= Len(chapters1) THEN [matched |-> acc, used_j |-> used_j]
  ELSE LET best_match == scan_chapters2(chapters1[i + 1], chapters2, 0, used_j,
                                        NoneIdx, Zero)
       IN  IF best_match # NoneIdx
           THEN match_old(chapters1, chapters2, i + 1, used_j \cup {best_match},
                          Append(acc, <<i, best_match>>))
           ELSE match_old(chapters1, chapters2, i + 1, used_j,
                          Append(acc, <<i, NoneIdx>>))

\* the last loop walking the new chapters from the last to the first
RECURSIVE unmatched_new_reversed(_, _, _, _)
unmatched_new_reversed(n, j, used_j, acc) ==
  IF j >= n THEN acc
  ELSE unmatched_new_reversed(n, j + 1, used_j,
         IF (n - 1 - j) \notin used_j THEN Append(acc, <<NoneIdx, n - 1 - j>>) ELSE acc)

\* the last loop: for j in range(len(chapters2)): if j not in used_j
RECURSIVE unmatched_new(_, _, _, _)
unmatched_new(n, j, used_j, acc) ==
  IF j >= n THEN acc
  ELSE unmatched_new(n, j + 1, used_j,
                     IF j \notin used_j THEN Append(acc, <<NoneIdx, j>>) ELSE acc)

\* match_chapters whose used set survives from the call before: it starts
\* with the new chapters that the latest result has claimed
match_chapters_keeps_used(chapters1, chapters2) ==
  LET kept == {matched[k][2] : k \in 1..Len(matched)} \ {NoneIdx}
      r == match_old(chapters1, chapters2, 0, kept, <<>>)
  IN  unmatched_new(Len(chapters2), 0, r.used_j, r.matched)

match_chapters(chapters1, chapters2) ==
  LET r == match_old(chapters1, chapters2, 0, {}, <<>>)
  IN  unmatched_new(Len(chapters2), 0, r.used_j, r.matched)

(***************************************************************************)
(* The summary totals: the chapter loop of epub_diff_checker.py and the    *)
(* one of generate_html_report of epub_diff_cli.py                         *)
(***************************************************************************)
\* sum(1 for r in diff_results if r['type'] == type)
count_type(diff_results, type) ==
  Len(SelectSeq(diff_results, LAMBDA r : r.type = type))

NoTotals == [total_added |-> 0, total_deleted |-> 0, total_modified |-> 0]

\* the totals after one row (idx1, idx2) of matched_chapters has been
\* processed, diff_results being the script of the row when both exist
add_row(totals, chapters1, chapters2, idx1, idx2, diff_results) ==
  IF idx1 = NoneIdx
  THEN [totals EXCEPT !.total_added = @ + Len(chapters2[idx2 + 1].paragraphs)]
  ELSE IF idx2 = NoneIdx
  THEN [totals EXCEPT !.total_deleted = @ + Len(chapters1[idx1 + 1].paragraphs)]
  ELSE [total_added |-> totals.total_added + count_type(diff_results, "added"),
        total_deleted |-> totals.total_deleted + count_type(diff_results, "deleted"),
        total_modified |-> totals.total_modified + count_type(diff_results, "modified")]

\* the paragraphs of a row's chapters; compare_paragraphs is called on them
\* only when both chapters exist
row_paras1(chapters1, idx1) ==
  IF idx1 = NoneIdx THEN <<>> ELSE chapters1[idx1 + 1].paragraphs

row_paras2(chapters2, idx2) ==
  IF idx2 = NoneIdx THEN <<>> ELSE chapters2[idx2 + 1].paragraphs

\* epub_diff_cli.py: for match_idx, (idx1, idx2) in enumerate(matched_chapters)
RECURSIVE cli_chapters(_, _, _, _, _)
cli_chapters(chapters1, chapters2, matched_chapters, match_idx, totals) ==
  IF match_idx >= Len(matched_chapters) THEN totals
  ELSE LET idx1 == matched_chapters[match_idx + 1][1]
           idx2 == matched_chapters[match_idx + 1][2]
       IN  cli_chapters(chapters1, chapters2, matched_chapters, match_idx + 1,
             add_row(totals, chapters1, chapters2, idx1, idx2,
                     compare_paragraphs(row_paras1(chapters1, idx1),
                                        row_paras2(chapters2, idx2),
                                        DefaultMinSimilarity)))

\* the first entry of the selectbox
AllChapters == <<"-- Semua Chapter --", "">>

\* f"Chapter: {title}", f"[DELETED] {title}", f"[NEW] {title}": the prefix
\* and the title
chapter_option(chapters1, chapters2, idx1, idx2) ==
  IF idx1 # NoneIdx /\ idx2 # NoneIdx THEN <<"Chapter: ", chapters1[idx1 + 1].title>>
  ELSE IF idx1 # NoneIdx THEN <<"[DELETED] ", chapters1[idx1 + 1].title>>
  ELSE <<"[NEW] ", chapters2[idx2 + 1].title>>

chapter_options(chapters1, chapters2, matched_chapters) ==
  [k \in 1..Len(matched_chapters) |->
     chapter_option(chapters1, chapters2, matched_chapters[k][1],
                    matched_chapters[k][2])]

\* epub_diff_checker.py: for match_idx, (idx1, idx2) in
\* enumerate(matched_chapters), with the filter by selection
RECURSIVE st_chapters(_, _, _, _, _, _)
st_chapters(chapters1, chapters2, matched_chapters, selected_chapter, match_idx, totals) ==
  IF match_idx >= Len(matched_chapters) THEN totals
  ELSE LET idx1 == matched_chapters[match_idx + 1][1]
           idx2 == matched_chapters[match_idx + 1][2]
           chapter_name == chapter_option(chapters1, chapters2, idx1, idx2)
       IN  IF selected_chapter # AllChapters /\ selected_chapter # chapter_name
           THEN st_chapters(chapters1, chapters2, matched_chapters,
                            selected_chapter, match_idx + 1, totals)
           ELSE st_chapters(chapters1, chapters2, matched_chapters,
                  selected_chapter, match_idx + 1,
                  add_row(totals, chapters1, chapters2, idx1, idx2,
                          st_compare_paragraphs(row_paras1(chapters1, idx1),
                                                row_paras2(chapters2, idx2))))

(***************************************************************************)
(* Inputs: what extract_epub can hand over.  A paragraph has more than one *)
(* character and a chapter at least one paragraph.                         *)
(***************************************************************************)
ab == <<"a", "b">>
a_b == <<"a", " ", "b">>
ac == <<"a", "c">>

\* ratio(ab, a_b) = 4/5, ratio(ab, ac) = 1/2, ratio(a_b, ac) = 2/5
Paras == {ab, a_b, ac}

ParaLists == UNION {[1..n -> Paras] : n \in 0..MaxParas}

abcdefghij == <<"a", "b", "c", "d", "e", "f", "g", "h", "i", "j">>
abcklmnopq == <<"a", "b", "c", "k", "l", "m", "n", "o", "p", "q">>
abcd == <<"a", "b", "c", "d">>
klmno == <<"k", "l", "m", "n", "o">>

\* prefix ratios: abcdefghij/abcklmnopq = 3/10, abcdefghij/abcd\nklmno = 2/5,
\* abcklmnopq/abcd\nklmno = 4/5
Chapters ==
  { Chapter("A", <<abcdefghij>>), Chapter("B", <<abcdefghij>>),
    Chapter("A", <<abcklmnopq>>), Chapter("B", <<abcd, klmno>>) }

ChapterLists == UNION {[1..n -> Chapters] : n \in 0..MaxChapters}

(***************************************************************************)
(* The aligners applied to two paragraph sequences.                        *)
(***************************************************************************)
InitAlign ==
  /\ pc = "extracted"
  /\ p1 \in ParaLists
  /\ p2 \in ParaLists
  /\ variant = "none"
  /\ aligned = <<>>
  /\ c1 = <<>>
  /\ c2 = <<>>
  /\ matched = <<>>
  /\ left = <<>>
  /\ right = <<>>
  /\ out = <<>>
  /\ st_min_similarity = SliderDefault
  /\ calls = 0

\* epub_simple_diff_cli.py: aligned = align(c1_['paragraphs'], c2_['paragraphs'])
Align ==
  /\ pc = "extracted"
  /\ aligned' = align(p1, p2)
  /\ variant' = "simple"
  /\ pc' = "aligned"
  /\ UNCHANGED <<p1, p2, c1, c2, matched, left, right, out, st_min_similarity, calls>>

\* epub_diff_cli.py: diff_results = compare_paragraphs(ch1[..], ch2[..])
CompareParagraphsCli ==
  /\ pc = "extracted"
  /\ aligned' = compare_paragraphs(p1, p2, DefaultMinSimilarity)
  /\ variant' = "cli"
  /\ pc' = "aligned"
  /\ UNCHANGED <<p1, p2, c1, c2, matched, left, right, out, st_min_similarity, calls>>

\* epub_diff_checker.py: diff_results = compare_paragraphs(ch1[..], ch2[..])
CompareParagraphsSt ==
  /\ pc = "extracted"
  /\ aligned' = st_compare_paragraphs(p1, p2)
  /\ variant' = "streamlit"
  /\ pc' = "aligned"
  /\ UNCHANGED <<p1, p2, c1, c2, matched, left, right, out, st_min_similarity, calls>>

NextAlign == Align \/ CompareParagraphsCli \/ CompareParagraphsSt

SpecAlign == InitAlign /\ [][NextAlign]_vars

(***************************************************************************)
(* The aligners applied to sequences of whole-sentence paragraphs.         *)
(***************************************************************************)
MaxScenarioParas == 2

One == <<"O", "n", "e">>
Two == <<"T", "w", "o">>
HelloWorld == <<"H", "e", "l", "l", "o", " ", "w", "o", "r", "l", "d">>
FooBar == <<"F", "o", "o", " ", "b", "a", "r">>
FooBaz == <<"F", "o", "o", " ", "b", "a", "z">>

ScenarioParas == {One, Two, HelloWorld, FooBar, FooBaz}

ScenarioLists == UNION {[1..n -> ScenarioParas] : n \in 0..MaxScenarioParas}

\* two books of either family of paragraphs
InitScenario ==
  /\ pc = "extracted"
  /\ \/ p1 \in ScenarioLists /\ p2 \in ScenarioLists
     \/ p1 \in ParaLists /\ p2 \in ParaLists
  /\ variant = "none"
  /\ aligned = <<>>
  /\ c1 = <<>>
  /\ c2 = <<>>
  /\ matched = <<>>
  /\ left = <<>>
  /\ right = <<>>
  /\ out = <<>>
  /\ st_min_similarity = SliderDefault
  /\ calls = 0

SpecScenario == InitScenario /\ [][NextAlign]_vars

(***************************************************************************)
(* epub_diff_checker.py: the sidebar slider is set, then two paragraph     *)
(* sequences are compared.                                                 *)
(***************************************************************************)
InitSlider ==
  /\ pc = "extracted"
  /\ st_min_similarity \in SliderValues
  /\ calls = 0
  /\ p1 \in ParaLists
  /\ p2 \in ParaLists
  /\ variant = "none"
  /\ aligned = <<>>
  /\ c1 = <<>>
  /\ c2 = <<>>
  /\ matched = <<>>
  /\ left = <<>>
  /\ right = <<>>
  /\ out = <<>>

NextSlider == CompareParagraphsSt

SpecSlider == InitSlider /\ [][NextSlider]_vars

(***************************************************************************)
(* The novelty classifier applied to a paragraph of the revised document   *)
(* against the paragraphs of the baseline document.                        *)
(***************************************************************************)
MaxBaseline == 2

\* "The quick fox"
TheQuickFox ==
  <<"T", "h", "e", " ", "q", "u", "i", "c", "k", " ", "f", "o", "x">>
\* "Alpha beta gamma. Delta epsilon zeta."
AlphaDelta ==
  <<"A", "l", "p", "h", "a", " ", "b", "e", "t", "a", " ", "g", "a", "m",
    "m", "a", ".", " ", "D", "e", "l", "t", "a", " ", "e", "p", "s", "i",
    "l", "o", "n", " ", "z", "e", "t", "a", ".">>
\* "Brand new sentence here."
BrandNew ==
  <<"B", "r", "a", "n", "d", " ", "n", "e", "w", " ", "s", "e", "n", "t",
    "e", "n", "c", "e", " ", "h", "e", "r", "e", ".">>
\* "quick fox jumps"
QuickFoxJumps ==
  <<"q", "u", "i", "c", "k", " ", "f", "o", "x", " ", "j", "u", "m", "p",
    "s">>
\* "Thequick  fox"
TheQuick_Fox ==
  <<"T", "h", "e", "q", "u", "i", "c", "k", " ", " ", "f", "o", "x">>
\* "quick fox"
QuickFox ==
  <<"q", "u", "i", "c", "k", " ", "f", "o", "x">>
\* "Alpha beta gamma. Brand new sentence here! Ok."
AlphaBrandOk ==
  <<"A", "l", "p", "h", "a", " ", "b", "e", "t", "a", " ", "g", "a", "m",
    "m", "a", ".", " ", "B", "r", "a", "n", "d", " ", "n", "e", "w", " ",
    "s", "e", "n", "t", "e", "n", "c", "e", " ", "h", "e", "r", "e", "!",
    " ", "O", "k", ".">>
\* "The quick fox. Entirely different words. More unseen text added."
FoxAndMore ==
  <<"T", "h", "e", " ", "q", "u", "i", "c", "k", " ", "f", "o", "x", ".",
    " ", "E", "n", "t", "i", "r", "e", "l", "y", " ", "d", "i", "f", "f",
    "e", "r", "e", "n", "t", " ", "w", "o", "r", "d", "s", ".", " ", "M",
    "o", "r", "e", " ", "u", "n", "s", "e", "e", "n", " ", "t", "e", "x",
    "t", " ", "a", "d", "d", "e", "d", ".">>
\* "Hi. Ok!"
HiOk ==
  <<"H", "i", ".", " ", "O", "k", "!">>
\* "Delta epsilon zeta"
DeltaOnly ==
  <<"D", "e", "l", "t", "a", " ", "e", "p", "s", "i", "l", "o", "n", " ",
    "z", "e", "t", "a">>
\* "Alpha beta gamma? Quite unseen wording. Also never seen before."
AlphaUnseen ==
  <<"A", "l", "p", "h", "a", " ", "b", "e", "t", "a", " ", "g", "a", "m",
    "m", "a", "?", " ", "Q", "u", "i", "t", "e", " ", "u", "n", "s", "e",
    "e", "n", " ", "w", "o", "r", "d", "i", "n", "g", ".", " ", "A", "l",
    "s", "o", " ", "n", "e", "v", "e", "r", " ", "s", "e", "e", "n", " ",
    "b", "e", "f", "o", "r", "e", ".">>

BaselineParas == {TheQuickFox, AlphaDelta, BrandNew}

BaselineLists == UNION {[1..n -> BaselineParas] : n \in 0..MaxBaseline}

Candidates ==
  {QuickFoxJumps, TheQuick_Fox, QuickFox, AlphaBrandOk, FoxAndMore, HiOk,
   DeltaOnly, AlphaUnseen}

InitNovelty ==
  /\ pc = "indexed"
  /\ p1 \in BaselineLists
  /\ right \in Candidates
  /\ out = <<>>
  /\ variant = "none"
  /\ left = <<>>
  /\ p2 = <<>>
  /\ aligned = <<>>
  /\ c1 = <<>>
  /\ c2 = <<>>
  /\ matched = <<>>
  /\ st_min_similarity = SliderDefault
  /\ calls = 0

\* is_new(p) for one paragraph p of the revised document
IsNew ==
  /\ pc = "indexed"
  /\ out' = is_new(right, p1)
  /\ variant' = "is_new"
  /\ pc' = "classified"
  /\ UNCHANGED <<left, right, p1, p2, aligned, c1, c2, matched, st_min_similarity, calls>>

NextNovelty == IsNew

SpecNovelty == InitNovelty /\ [][NextNovelty]_vars

(***************************************************************************)
(* match_chapters and the aligners called again and again on the chapters  *)
(* of two books, the aligners on the paragraphs of a matched pair.         *)
(***************************************************************************)
MaxCalls == 3

CallChapters == {Chapter("A", <<ab>>), Chapter("B", <<ab, ac>>), Chapter("C", <<a_b>>)}

CallChapterLists == UNION {[1..n -> CallChapters] : n \in 0..MaxChapters}

InitCalls ==
  /\ pc = "extracted"
  /\ c1 \in CallChapterLists
  /\ c2 \in CallChapterLists
  /\ matched = <<>>
  /\ p1 = <<>>
  /\ p2 = <<>>
  /\ variant = "none"
  /\ aligned = <<>>
  /\ left = <<>>
  /\ right = <<>>
  /\ out = <<>>
  /\ st_min_similarity = SliderDefault
  /\ calls = 0

\* matched = match_chapters(chapters1, chapters2)
CallMatchChapters ==
  /\ calls < MaxCalls
  /\ matched' = match_chapters(c1, c2)
  /\ pc' = "matched"
  /\ calls' = calls + 1
  /\ UNCHANGED <<c1, c2, p1, p2, variant, aligned, left, right, out, st_min_similarity>>

\* the rows of matched with a chapter on both sides
BothExist ==
  {k \in 1..Len(matched) : matched[k][1] # NoneIdx /\ matched[k][2] # NoneIdx}

\* the paragraphs handed to an aligner for the k-th row of matched
PassParagraphs(k) ==
  /\ p1' = c1[matched[k][1] + 1].paragraphs
  /\ p2' = c2[matched[k][2] + 1].paragraphs

\* epub_simple_diff_cli.py: aligned = align(c1_['paragraphs'], c2_['paragraphs'])
CallAlign ==
  /\ calls < MaxCalls
  /\ pc # "extracted"
  /\ \E k \in BothExist :
       /\ PassParagraphs(k)
       /\ aligned' = align(p1', p2')
  /\ variant' = "simple"
  /\ pc' = "aligned"
  /\ calls' = calls + 1
  /\ UNCHANGED <<c1, c2, matched, left, right, out, st_min_similarity>>

\* epub_diff_cli.py: diff_results = compare_paragraphs(ch1[..], ch2[..])
CallCompareParagraphsCli ==
  /\ calls < MaxCalls
  /\ pc # "extracted"
  /\ \E k \in BothExist :
       /\ PassParagraphs(k)
       /\ aligned' = compare_paragraphs(p1', p2', DefaultMinSimilarity)
  /\ variant' = "cli"
  /\ pc' = "aligned"
  /\ calls' = calls + 1
  /\ UNCHANGED <<c1, c2, matched, left, right, out, st_min_similarity>>

\* epub_diff_checker.py: diff_results = compare_paragraphs(ch1[..], ch2[..])
CallCompareParagraphsSt ==
  /\ calls < MaxCalls
  /\ pc # "extracted"
  /\ \E k \in BothExist :
       /\ PassParagraphs(k)
       /\ aligned' = st_compare_paragraphs(p1', p2')
  /\ variant' = "streamlit"
  /\ pc' = "aligned"
  /\ calls' = calls + 1
  /\ UNCHANGED <<c1, c2, matched, left, right, out, st_min_similarity>>

NextCalls ==
  \/ CallMatchChapters
  \/ CallAlign
  \/ CallCompareParagraphsCli
  \/ CallCompareParagraphsSt

SpecCalls == InitCalls /\ [][NextCalls]_vars

(***************************************************************************)
(* The aligners applied to chapters short and long: from 200 paragraphs    *)
(* on, the SequenceMatcher of the aligners drops the popular elements of   *)
(* the new chapter from b2j.  A long chapter is a sequence of distinct     *)
(* paragraphs with a separator line as every twentieth paragraph; its new  *)
(* version has some of its paragraphs rewritten.                           *)
(***************************************************************************)
MaxLongParas == 200

Letters ==
  <<"b", "c", "d", "e", "f", "g", "h", "i", "j", "k", "l", "m", "n", "o", "p", "q">>

\* the k-th paragraph of the long chapter and its rewritten version
LongPara(k) == <<Letters[(k \div 16) + 1], Letters[(k % 16) + 1]>>
Rewritten(k) == <<"z">> \o LongPara(k)

Separator == <<"*", "*", "*">>

LongChapter(n, rewritten) ==
  [k \in 1..n |->
     IF k % 20 = 0 THEN Separator
     ELSE IF k \in rewritten THEN Rewritten(k)
     ELSE LongPara(k)]

\* the paragraphs rewritten in the new version: both neighbours of the
\* separator at 60, or one of them only
Rewrites == {{59, 61, 130}, {59, 130}}

LongPairs ==
  {<<LongChapter(n, {}), LongChapter(n, rewritten)>> :
     n \in (MaxLongParas - 1)..MaxLongParas, rewritten \in Rewrites}

InitLong ==
  /\ pc = "extracted"
  /\ \E pair \in LongPairs \cup (ParaLists \X ParaLists) :
       /\ p1 = pair[1]
       /\ p2 = pair[2]
  /\ variant = "none"
  /\ aligned = <<>>
  /\ c1 = <<>>
  /\ c2 = <<>>
  /\ matched = <<>>
  /\ left = <<>>
  /\ right = <<>>
  /\ out = <<>>
  /\ st_min_similarity = SliderDefault
  /\ calls = 0

SpecLong == InitLong /\ [][NextAlign]_vars

(***************************************************************************)
(* The report of two books: the chapters are matched, the chapter loop     *)
(* runs and the summary totals are shown.                                  *)
(***************************************************************************)
InitReport ==
  /\ pc = "extracted"
  /\ c1 \in CallChapterLists
  /\ c2 \in CallChapterLists
  /\ matched = <<>>
  /\ p1 = <<>>
  /\ p2 = <<>>
  /\ variant = "none"
  /\ aligned = <<>>
  /\ left = <<>>
  /\ right = <<>>
  /\ out = <<>>
  /\ st_min_similarity = SliderDefault
  /\ calls = 0

\* epub_diff_checker.py: one run of the script with the books uploaded and
\* selected_chapter the choice in the selectbox
StreamlitApp ==
  /\ pc = "extracted"
  /\ matched' = match_chapters(c1, c2)
  /\ \E selected_chapter \in
          {AllChapters} \cup
          {chapter_options(c1, c2, matched')[k] : k \in 1..Len(matched')} :
       out' = [selected_chapter |-> selected_chapter,
               totals |-> st_chapters(c1, c2, matched', selected_chapter, 0,
                                      NoTotals)]
  /\ variant' = "streamlit"
  /\ pc' = "reported"
  /\ UNCHANGED <<c1, c2, p1, p2, aligned, left, right, st_min_similarity, calls>>

\* epub_diff_cli.py: main, match_chapters then generate_html_report
GenerateHtmlReport ==
  /\ pc = "extracted"
  /\ matched' = match_chapters(c1, c2)
  /\ out' = [selected_chapter |-> AllChapters,
             totals |-> cli_chapters(c1, c2, matched', 0, NoTotals)]
  /\ variant' = "cli"
  /\ pc' = "reported"
  /\ UNCHANGED <<c1, c2, p1, p2, aligned, left, right, st_min_similarity, calls>>

NextReport == StreamlitApp \/ GenerateHtmlReport

SpecReport == InitReport /\ [][NextReport]_vars

(***************************************************************************)
(* The functions on characters applied to two texts.                       *)
(***************************************************************************)
MaxText == 3

Chars == {"a", "<", "&"}

Texts == UNION {[1..n -> Chars] : n \in 0..MaxText}

InitDiff ==
  /\ pc = "paired"
  /\ left \in Texts
  /\ right \in Texts
  /\ out = <<>>
  /\ variant = "none"
  /\ p1 = <<>>
  /\ p2 = <<>>
  /\ aligned = <<>>
  /\ c1 = <<>>
  /\ c2 = <<>>
  /\ matched = <<>>
  /\ st_min_similarity = SliderDefault
  /\ calls = 0

\* epub_simple_diff_cli.py: lh, rh, _ = highlight_diff(left, right)
HighlightDiff ==
  /\ pc = "paired"
  /\ out' = highlight_diff(left, right)
  /\ variant' = "highlight_diff"
  /\ pc' = "rendered"
  /\ UNCHANGED <<left, right, p1, p2, aligned, c1, c2, matched, st_min_similarity, calls>>

\* epub_diff_checker.py: diff_html, _ = get_diff_html(result['old'], result['new'])
GetDiffHtml ==
  /\ pc = "paired"
  /\ out' = get_diff_html(left, right)
  /\ variant' = "get_diff_html"
  /\ pc' = "rendered"
  /\ UNCHANGED <<left, right, p1, p2, aligned, c1, c2, matched, st_min_similarity, calls>>

\* ratio = difflib.SequenceMatcher(None, old_p, new_p).ratio()
Similarity ==
  /\ pc = "paired"
  /\ out' = ratio(left, right)
  /\ variant' = "ratio"
  /\ pc' = "scored"
  /\ UNCHANGED <<left, right, p1, p2, aligned, c1, c2, matched, st_min_similarity, calls>>

NextDiff == HighlightDiff \/ GetDiffHtml \/ Similarity

SpecDiff == InitDiff /\ [][NextDiff]_vars

(***************************************************************************)
(* The chapter matcher applied to two chapter sequences.                   *)
(***************************************************************************)
InitMatch ==
  /\ pc = "extracted"
  /\ c1 \in ChapterLists
  /\ c2 \in ChapterLists
  /\ matched = <<>>
  /\ p1 = <<>>
  /\ p2 = <<>>
  /\ variant = "none"
  /\ aligned = <<>>
  /\ left = <<>>
  /\ right = <<>>
  /\ out = <<>>
  /\ st_min_similarity = SliderDefault
  /\ calls = 0

\* matched = match_chapters(c1, c2)
MatchChapters ==
  /\ pc = "extracted"
  /\ matched' = match_chapters(c1, c2)
  /\ pc' = "matched"
  /\ UNCHANGED <<p1, p2, variant, aligned, c1, c2, left, right, out, st_min_similarity, calls>>

NextMatch == MatchChapters

SpecMatch == InitMatch /\ [][NextMatch]_vars

(***************************************************************************)
(* Vocabulary of the properties.                                           *)
(***************************************************************************)
\* the edit script in one shape for the three aligners
KindOf(tag) ==
  IF tag = "same" THEN "Same"
  ELSE IF tag \in {"del", "deleted"} THEN "Deleted"
  ELSE IF tag \in {"add", "added"} THEN "Added"
  ELSE IF tag \in {"mod", "modified"} THEN "Modified"
  ELSE "Unknown"

EditOp(row) ==
  IF variant = "simple"
  THEN [kind |-> KindOf(row[1]), old |-> row[2], new |-> row[3],
        old_idx |-> row[4], new_idx |-> row[5]]
  ELSE [kind |-> KindOf(row.type), old |-> row.old, new |-> row.new,
        old_idx |-> row.old_idx, new_idx |-> row.new_idx]

EditScript == [n \in 1..Len(aligned) |-> EditOp(aligned[n])]

OldKinds == {"Same", "Deleted", "Modified"}
NewKinds == {"Same", "Added", "Modified"}

\* the ops that account for old position i, for new position j
OpsOfOld(i) == {n \in 1..Len(aligned) : EditScript[n].old_idx = i}
OpsOfNew(j) == {n \in 1..Len(aligned) : EditScript[n].new_idx = j}

\* the Replace blocks of the opcode generator and their same-offset pairs
ReplaceBlocks ==
  LET ocs == get_opcodes(p1, p2)
  IN  {ocs[n] : n \in {m \in 1..Len(ocs) : ocs[m][1] = "replace"}}

\* <<i, j>>, 1-based: old unit i and new unit j sit at the same offset of a
\* Replace block
ReplacePairs ==
  UNION {{<<oc[2] + k + 1, oc[4] + k + 1>> :
            k \in 0..(Min(oc[3] - oc[2], oc[5] - oc[4]) - 1)} : oc \in ReplaceBlocks}

EmittedModified(i, j) ==
  \E n \in 1..Len(aligned) :
    /\ EditScript[n].kind = "Modified"
    /\ EditScript[n].old_idx = i
    /\ EditScript[n].new_idx = j

EmittedDeletedAdded(i, j) ==
  \E n \in 1..(Len(aligned) - 1) :
    /\ EditScript[n].kind = "Deleted"
    /\ EditScript[n].old_idx = i
    /\ EditScript[n + 1].kind = "Added"
    /\ EditScript[n + 1].new_idx = j

Half == <<1, 2>>
RatioEQ(r, s) == r[1] * s[2] = s[1] * r[2]

\* the rule of the modification threshold for one same-offset pair
ThresholdRule(i, j) ==
  IF RatioGT(ratio(p1[i], p2[j]), Half)
  THEN EmittedModified(i, j) /\ ~EmittedDeletedAdded(i, j)
  ELSE EmittedDeletedAdded(i, j) /\ ~EmittedModified(i, j)


(***************************************************************************)
(* C1: the edit script accounts for every old position 1..len(old) exactly *)
(* once, in a Same, Deleted or Modified op, and for every new position     *)
(* 1..len(new) exactly once, in a Same, Added or Modified op; no op        *)
(* carries a position outside these ranges.                                *)
(***************************************************************************)
C1_Coverage ==
  pc = "aligned" =>
    /\ \A i \in 1..Len(p1) :
         /\ Cardinality(OpsOfOld(i)) = 1
         /\ \A n \in OpsOfOld(i) : EditScript[n].kind \in OldKinds
    /\ \A j \in 1..Len(p2) :
         /\ Cardinality(OpsOfNew(j)) = 1
         /\ \A n \in OpsOfNew(j) : EditScript[n].kind \in NewKinds
    /\ \A n \in 1..Len(aligned) :
         /\ EditScript[n].kind \in OldKinds <=> EditScript[n].old_idx \in 1..Len(p1)
         /\ EditScript[n].kind \in NewKinds <=> EditScript[n].new_idx \in 1..Len(p2)

\* a script with all four kinds of op, from a Replace block that holds a
\* similar pair, a dissimilar pair and a leftover
C1_Witness ==
  /\ pc = "aligned"
  /\ variant = "streamlit"
  /\ {EditScript[n].kind : n \in 1..Len(aligned)} =
       {"Same", "Deleted", "Added", "Modified"}
  /\ \E oc \in ReplaceBlocks : oc[3] - oc[2] # oc[5] - oc[4]

(***************************************************************************)
(* C3 as stated: in every aligner, a same-offset pair of a Replace block   *)
(* is one Modified op when its similarity is above 0.5 and a Deleted op    *)
(* followed by an Added op otherwise.                                      *)
(***************************************************************************)
C3_ThresholdEveryVariant ==
  pc = "aligned" => \A pr \in ReplacePairs : ThresholdRule(pr[1], pr[2])

(***************************************************************************)
(* C3 amended: both compare_paragraphs follow the threshold rule (Modified *)
(* only strictly above 0.5); align of epub_simple_diff_cli.py has no       *)
(* threshold and emits every same-offset pair as one Modified op.          *)
(***************************************************************************)
C3_ThresholdCompareParagraphs ==
  pc = "aligned" =>
    \A pr \in ReplacePairs :
      IF variant = "simple"
      THEN EmittedModified(pr[1], pr[2]) /\ ~EmittedDeletedAdded(pr[1], pr[2])
      ELSE ThresholdRule(pr[1], pr[2])

\* a pair of similarity exactly 0.5 that compare_paragraphs reports as
\* Deleted followed by Added
C3_Witness ==
  /\ pc = "aligned"
  /\ variant = "cli"
  /\ \E pr \in ReplacePairs :
       /\ RatioEQ(ratio(p1[pr[1]], p2[pr[2]]), Half)
       /\ EmittedDeletedAdded(pr[1], pr[2])

(***************************************************************************)
(* C4 as stated: units that differ only in whitespace are equal elements   *)
(* for the aligner, so an old and a new unit with equal keys are never     *)
(* paired in a Modified op nor in a Deleted op followed by an Added op.    *)
(***************************************************************************)
C4_ContentEquality ==
  pc = "aligned" =>
    /\ \A n \in 1..Len(aligned) :
         EditScript[n].kind = "Modified" =>
           ~ContentEqual(EditScript[n].old, EditScript[n].new)
    /\ \A n \in 1..(Len(aligned) - 1) :
         (EditScript[n].kind = "Deleted" /\ EditScript[n + 1].kind = "Added") =>
           ~ContentEqual(EditScript[n].old, EditScript[n + 1].new)

(***************************************************************************)
(* C4 amended: the aligners compare units by literal equality: a Same op   *)
(* always carries two identical texts, so units that differ in whitespace  *)
(* only are never reported as Same.                                        *)
(***************************************************************************)
C4_LiteralEquality ==
  pc = "aligned" =>
    \A n \in 1..Len(aligned) :
      EditScript[n].kind = "Same" => EditScript[n].old = EditScript[n].new

\* two units that differ only in whitespace, reported as Modified next to a
\* Same op
C4_Witness ==
  /\ pc = "aligned"
  /\ \E n \in 1..Len(aligned) : EditScript[n].kind = "Same"
  /\ \E n \in 1..Len(aligned) :
       /\ EditScript[n].kind = "Modified"
       /\ EditScript[n].old # EditScript[n].new
       /\ ContentEqual(EditScript[n].old, EditScript[n].new)

(***************************************************************************)
(* C9: aligning a non-empty sequence with itself yields len(X) ops, all    *)
(* Same, the k-th carrying old index k and new index k.                    *)
(***************************************************************************)
C9_Identity ==
  (pc = "aligned" /\ p1 = p2 /\ Len(p1) > 0) =>
    /\ Len(aligned) = Len(p1)
    /\ \A k \in 1..Len(aligned) :
         /\ EditScript[k].kind = "Same"
         /\ EditScript[k].old_idx = k
         /\ EditScript[k].new_idx = k

\* a sequence with a repeated unit aligned with itself
C9_Witness ==
  /\ pc = "aligned"
  /\ p1 = p2
  /\ Len(p1) >= 3
  /\ \E i, j \in 1..Len(p1) : i # j /\ p1[i] = p1[j]
  /\ \E i, j \in 1..Len(p1) : p1[i] # p1[j]

(***************************************************************************)
(* C10: with no old units the script is one Added op per new unit, with no *)
(* new units one Deleted op per old unit, with neither it is empty.        *)
(***************************************************************************)
C10_EmptyInputs ==
  pc = "aligned" =>
    /\ p1 = <<>> =>
         /\ Len(aligned) = Len(p2)
         /\ \A k \in 1..Len(aligned) :
              /\ EditScript[k].kind = "Added"
              /\ EditScript[k].new_idx = k
              /\ EditScript[k].new = p2[k]
    /\ p2 = <<>> =>
         /\ Len(aligned) = Len(p1)
         /\ \A k \in 1..Len(aligned) :
              /\ EditScript[k].kind = "Deleted"
              /\ EditScript[k].old_idx = k
              /\ EditScript[k].old = p1[k]

\* an empty old side against several new units
C10_Witness ==
  /\ pc = "aligned"
  /\ p1 = <<>>
  /\ Len(p2) >= 2
  /\ Len(aligned) = Len(p2)

(***************************************************************************)
(* Vocabulary of the chapter matcher's properties.                         *)
(***************************************************************************)
OldChapters == 0..(Len(c1) - 1)
NewChapters == 0..(Len(c2) - 1)

\* the pairing at position n of the result
Left(n) == matched[n][1]
Right(n) == matched[n][2]

\* the new chapters claimed before old chapter i is processed, read off the
\* pairings of the old chapters before it
ClaimedBefore(i) == {Right(n) : n \in 1..i} \ {NoneIdx}
Unclaimed(i) == NewChapters \ ClaimedBefore(i)

TitleCandidates(i) == {j \in Unclaimed(i) : c2[j + 1].title = c1[i + 1].title}

PrefixSimilarity(i, j) ==
  ratio(Slice(c1[i + 1].full_text, 0, ChapterPrefixLength),
        Slice(c2[j + 1].full_text, 0, ChapterPrefixLength))

\* the unclaimed new chapters whose prefix similarity to old chapter i is
\* above the threshold, and the best of them (lowest index on a tie)
SimilarCandidates(i) ==
  {j \in Unclaimed(i) : RatioGT(PrefixSimilarity(i, j), ChapterMatchThreshold)}

BestSimilar(i) ==
  CHOOSE j \in SimilarCandidates(i) :
    \A k \in SimilarCandidates(i) :
      \/ RatioGT(PrefixSimilarity(i, j), PrefixSimilarity(i, k))
      \/ (RatioEQ(PrefixSimilarity(i, j), PrefixSimilarity(i, k)) /\ j <= k)

Lowest(S) == CHOOSE j \in S : \A k \in S : j <= k

\* the result has one leading pairing per old chapter
OnePerOld == Len(matched) >= Len(c1)

(***************************************************************************)
(* C2: every old chapter index is the left side of exactly one pairing,    *)
(* every new chapter index the right side of exactly one pairing, every    *)
(* pairing has a side present, and no side is an index out of range.       *)
(***************************************************************************)
C2_PairingInvariant ==
  pc = "matched" =>
    /\ \A i \in OldChapters :
         Cardinality({n \in 1..Len(matched) : Left(n) = i}) = 1
    /\ \A j \in NewChapters :
         Cardinality({n \in 1..Len(matched) : Right(n) = j}) = 1
    /\ \A n \in 1..Len(matched) :
         /\ Left(n) # NoneIdx \/ Right(n) # NoneIdx
         /\ Left(n) \in OldChapters \cup {NoneIdx}
         /\ Right(n) \in NewChapters \cup {NoneIdx}

\* two equal old chapters, which prefer the same new chapter, are both
\* paired, the second one with the new chapter the first one left
C2_Witness ==
  /\ pc = "matched"
  /\ Len(c1) = 2
  /\ Len(c2) = 2
  /\ Left(1) = 0 /\ Right(1) # NoneIdx
  /\ Left(2) = 1 /\ Right(2) # NoneIdx
  /\ c1[1] = c1[2]
  /\ c2[1] # c2[2]

(***************************************************************************)
(* C5: an old chapter for which an unclaimed new chapter with an equal     *)
(* title exists is paired with the lowest-index such chapter, whatever the *)
(* prefix similarity of the other unclaimed chapters.                      *)
(***************************************************************************)
C5_TitleFirst ==
  pc = "matched" =>
    /\ OnePerOld
    /\ \A i \in OldChapters :
         TitleCandidates(i) # {} =>
           matched[i + 1] = <<i, Lowest(TitleCandidates(i))>>

\* the title match wins although an unclaimed chapter scanned before it has
\* a higher prefix similarity, above the threshold
C5_Witness ==
  /\ pc = "matched"
  /\ OnePerOld
  /\ \E i \in OldChapters :
       /\ TitleCandidates(i) # {}
       /\ Right(i + 1) = Lowest(TitleCandidates(i))
       /\ \E k \in SimilarCandidates(i) :
            /\ k < Right(i + 1)
            /\ RatioGT(PrefixSimilarity(i, k), PrefixSimilarity(i, Right(i + 1)))

(***************************************************************************)
(* C6: an old chapter without a title candidate is paired with the         *)
(* unclaimed new chapter of highest prefix similarity (lowest index on a   *)
(* tie) if that similarity is strictly above 0.3, and is left unmatched    *)
(* otherwise; so every two-sided pairing has equal titles or a prefix      *)
(* similarity above 0.3.                                                   *)
(***************************************************************************)
C6_BestSimilarity ==
  pc = "matched" =>
    /\ OnePerOld
    /\ \A i \in OldChapters :
         TitleCandidates(i) = {} =>
           IF SimilarCandidates(i) = {}
           THEN matched[i + 1] = <<i, NoneIdx>>
           ELSE matched[i + 1] = <<i, BestSimilar(i)>>
    /\ \A n \in 1..Len(matched) :
         (Left(n) # NoneIdx /\ Right(n) # NoneIdx) =>
           \/ c1[Left(n) + 1].title = c2[Right(n) + 1].title
           \/ RatioGT(PrefixSimilarity(Left(n), Right(n)), ChapterMatchThreshold)

\* an old chapter whose only candidate has prefix similarity exactly 0.3
\* and which is left unmatched
C6_Witness ==
  /\ pc = "matched"
  /\ OnePerOld
  /\ \E i \in OldChapters :
       /\ TitleCandidates(i) = {}
       /\ Unclaimed(i) # {}
       /\ \E j \in Unclaimed(i) :
            RatioEQ(PrefixSimilarity(i, j), ChapterMatchThreshold)
       /\ matched[i + 1] = <<i, NoneIdx>>

(***************************************************************************)
(* C7: the result lists one pairing per old chapter in old-chapter order   *)
(* and after them one pairing (None, j) per new chapter never claimed, in  *)
(* increasing order of j.                                                  *)
(***************************************************************************)
C7_ResultOrder ==
  pc = "matched" =>
    /\ OnePerOld
    /\ \A n \in 1..Len(c1) : Left(n) = n - 1
    /\ \A n \in (Len(c1) + 1)..Len(matched) : Left(n) = NoneIdx /\ Right(n) # NoneIdx
    /\ {Right(n) : n \in (Len(c1) + 1)..Len(matched)} =
         NewChapters \ ClaimedBefore(Len(c1))
    /\ \A m, n \in (Len(c1) + 1)..Len(matched) : m < n => Right(m) < Right(n)

\* an unmatched old chapter followed by two new chapters never claimed
C7_Witness ==
  /\ pc = "matched"
  /\ Len(c1) >= 1
  /\ Len(matched) >= Len(c1) + 2
  /\ \E n \in 1..Len(c1) : Right(n) = NoneIdx

(***************************************************************************)
(* C8: when both sides carry the same set of pairwise-distinct titles,     *)
(* every old chapter is paired with the new chapter of the same title and  *)
(* no chapter is left unmatched.                                           *)
(***************************************************************************)
DistinctTitles(chs) ==
  \A m, n \in 1..Len(chs) : m # n => chs[m].title # chs[n].title

TitlesOf(chs) == {chs[n].title : n \in 1..Len(chs)}

C8_SameTitlesAnyOrder ==
  (/\ pc = "matched"
   /\ DistinctTitles(c1)
   /\ DistinctTitles(c2)
   /\ TitlesOf(c1) = TitlesOf(c2)) =>
    /\ Len(matched) = Len(c1)
    /\ \A n \in 1..Len(matched) :
         /\ Left(n) = n - 1
         /\ Right(n) \in NewChapters
         /\ c2[Right(n) + 1].title = c1[n].title

\* swapped titles where the contents of the first old chapter are those of
\* the new chapter with the other title
C8_Witness ==
  /\ pc = "matched"
  /\ Len(c1) = 2
  /\ DistinctTitles(c1)
  /\ DistinctTitles(c2)
  /\ TitlesOf(c1) = TitlesOf(c2)
  /\ c1[1].title = c2[2].title
  /\ c1[1].full_text = c2[1].full_text
  /\ matched = <<<<0, 1>>, <<1, 0>>>>

(***************************************************************************)
(* C11: every op carries 1-based positions: an op with old index i carries *)
(* exactly the old unit old[i-1] and an op with new index j exactly the    *)
(* new unit new[j-1]; Same and Modified ops have both indexes, a Deleted   *)
(* op has no new index and an Added op no old index.  Old [One] against    *)
(* new [One, Two] is Same(One) at (1, 1) followed by Added(Two) with new   *)
(* index 2.                                                                *)
(***************************************************************************)
C11_Positions ==
  pc = "aligned" =>
    /\ \A n \in 1..Len(aligned) :
         LET e == EditScript[n]
         IN  /\ e.kind \in OldKinds =>
                  /\ e.old_idx \in 1..Len(p1)
                  /\ e.old = p1[e.old_idx]
             /\ e.kind \in NewKinds =>
                  /\ e.new_idx \in 1..Len(p2)
                  /\ e.new = p2[e.new_idx]
             /\ e.kind = "Deleted" => e.new_idx = NoneIdx /\ e.new = NoneText
             /\ e.kind = "Added" => e.old_idx = NoneIdx /\ e.old = NoneText
             /\ e.kind \in OldKinds \cup NewKinds
    /\ (p1 = <<One>> /\ p2 = <<One, Two>>) =>
         EditScript =
           <<[kind |-> "Same", old |-> One, new |-> One, old_idx |-> 1, new_idx |-> 1],
             [kind |-> "Added", old |-> NoneText, new |-> Two,
              old_idx |-> NoneIdx, new_idx |-> 2]>>

\* a Replace block whose sides start at different positions, behind a
\* deleted unit: its Modified op carries two different indexes
C11_Witness ==
  /\ pc = "aligned"
  /\ variant = "cli"
  /\ \E n \in 1..Len(aligned) :
       /\ EditScript[n].kind = "Modified"
       /\ EditScript[n].old_idx # EditScript[n].new_idx
       /\ EditScript[n].old = p1[EditScript[n].old_idx]
       /\ EditScript[n].new = p2[EditScript[n].new_idx]

\* the similarity ratio the n-th row carries, <<>> when it carries none: a
\* row of align is a 5-tuple, a row of compare_paragraphs a record
CarriedRatio(n) ==
  IF variant = "simple"
  THEN IF Len(aligned[n]) > 5 THEN aligned[n][6] ELSE <<>>
  ELSE IF "similarity" \in DOMAIN aligned[n] THEN aligned[n].similarity ELSE <<>>

\* r is the similarity ratio of the two units of the n-th op, within [0, 1]
CarriesRatioOfUnits(n) ==
  LET r == CarriedRatio(n)
  IN  /\ r # <<>>
      /\ r = ratio(EditScript[n].old, EditScript[n].new)
      /\ r[2] > 0
      /\ 0 <= r[1]
      /\ r[1] <= r[2]

SixSevenths == <<6, 7>>

HelloFooScenario == p1 = <<HelloWorld, FooBar>> /\ p2 = <<HelloWorld, FooBaz>>

\* exactly Same(Hello world) followed by one op pairing Foo bar with Foo baz
HelloFooScript ==
  EditScript =
    <<[kind |-> "Same", old |-> HelloWorld, new |-> HelloWorld,
       old_idx |-> 1, new_idx |-> 1],
      [kind |-> "Modified", old |-> FooBar, new |-> FooBaz,
       old_idx |-> 2, new_idx |-> 2]>>

(***************************************************************************)
(* C12 as stated: every Modified op of every aligner carries the           *)
(* similarity ratio of its two units, a value in [0, 1]; old               *)
(* [Hello world, Foo bar] against new [Hello world, Foo baz] is exactly    *)
(* Same(Hello world) followed by one Modified op pairing Foo bar with      *)
(* Foo baz whose ratio is 6/7.                                             *)
(***************************************************************************)
C12_EveryModifiedCarriesRatio ==
  pc = "aligned" =>
    /\ \A n \in 1..Len(aligned) :
         EditScript[n].kind = "Modified" => CarriesRatioOfUnits(n)
    /\ HelloFooScenario =>
         /\ HelloFooScript
         /\ CarriedRatio(2) # <<>>
         /\ RatioEQ(CarriedRatio(2), SixSevenths)

(***************************************************************************)
(* C12 amended: every Modified op of both compare_paragraphs carries the   *)
(* similarity ratio of its two units, a value in [0, 1], and the scenario  *)
(* gives Same(Hello world) followed by one Modified op pairing Foo bar     *)
(* with Foo baz whose ratio is 6/7; a Modified row of align carries no     *)
(* ratio, and the scenario gives the same two ops without one.             *)
(***************************************************************************)
C12_CompareParagraphsCarriesRatio ==
  pc = "aligned" =>
    /\ \A n \in 1..Len(aligned) :
         EditScript[n].kind = "Modified" =>
           IF variant = "simple" THEN CarriedRatio(n) = <<>>
           ELSE CarriesRatioOfUnits(n)
    /\ HelloFooScenario =>
         /\ HelloFooScript
         /\ IF variant = "simple" THEN CarriedRatio(2) = <<>>
            ELSE RatioEQ(CarriedRatio(2), SixSevenths)

\* the scenario aligned by compare_paragraphs: the Modified op carries the
\* ratio 12/14 of Foo bar and Foo baz
C12_Witness ==
  /\ pc = "aligned"
  /\ variant = "streamlit"
  /\ HelloFooScenario
  /\ Len(aligned) = 2
  /\ aligned[2].type = "modified"
  /\ aligned[2].similarity = <<12, 14>>

(***************************************************************************)
(* Vocabulary of the properties of the character diff.                     *)
(***************************************************************************)
\* tok stands in r at position pos (1-based)
StartsWith(r, pos, tok) ==
  /\ pos + Len(tok) - 1 <= Len(r)
  /\ \A k \in 1..Len(tok) : r[pos + k - 1] = tok[k]

\* the rendering r from position pos on without its <mark> and </mark> tags
RECURSIVE StripMarkupFrom(_, _)
StripMarkupFrom(r, pos) ==
  IF pos > Len(r) THEN <<>>
  ELSE IF StartsWith(r, pos, MarkOpen) THEN StripMarkupFrom(r, pos + Len(MarkOpen))
  ELSE IF StartsWith(r, pos, MarkClose) THEN StripMarkupFrom(r, pos + Len(MarkClose))
  ELSE <<r[pos]>> \o StripMarkupFrom(r, pos + 1)

StripMarkup(r) == StripMarkupFrom(r, 1)

Escapable == {"&", "<", ">", "\"", "'"}

\* the characters a rendering shows, each with whether it stands inside a
\* <mark> element: a sequence of <<character, marked>>
RECURSIVE ShownFrom(_, _, _)
ShownFrom(r, pos, marked) ==
  IF pos > Len(r) THEN <<>>
  ELSE IF StartsWith(r, pos, MarkOpen) THEN ShownFrom(r, pos + Len(MarkOpen), TRUE)
  ELSE IF StartsWith(r, pos, MarkClose) THEN ShownFrom(r, pos + Len(MarkClose), FALSE)
  ELSE IF \E c \in Escapable : StartsWith(r, pos, escape_char(c))
  THEN LET c == CHOOSE x \in Escapable : StartsWith(r, pos, escape_char(x))
       IN  <<<<c, marked>>>> \o ShownFrom(r, pos + Len(escape_char(c)), marked)
  ELSE <<<<r[pos], marked>>>> \o ShownFrom(r, pos + 1, marked)

Shown(r) == ShownFrom(r, 1, FALSE)

ShownText(r) == LET sh == Shown(r) IN [k \in 1..Len(sh) |-> sh[k][1]]

Rendered == pc = "rendered" /\ variant = "highlight_diff"

(***************************************************************************)
(* C13: the left rendering of highlight_diff(a, b) without its change      *)
(* markup is exactly the escaped text of a, and the right rendering        *)
(* without its markup exactly the escaped text of b: each side shows its   *)
(* own text, in order, nothing lost and nothing twice.                     *)
(***************************************************************************)
C13_RoundTrip ==
  Rendered =>
    /\ StripMarkup(out[1]) = escape(left)
    /\ StripMarkup(out[2]) = escape(right)
    /\ ShownText(out[1]) = left
    /\ ShownText(out[2]) = right

\* two different texts with characters that are escaped, both renderings
\* with markup
C13_Witness ==
  /\ Rendered
  /\ out[3]
  /\ \E k \in 1..Len(left) : left[k] = "<"
  /\ \E k \in 1..Len(right) : right[k] = "&"
  /\ \E k \in 1..Len(left) : \E m \in 1..Len(right) : left[k] = right[m]
  /\ out[1] # escape(left)
  /\ out[2] # escape(right)
  /\ Len(left) # Len(right)

\* the characters lo+1..hi of the shown sequence sh are all marked, all
\* unmarked
AllMarked(sh, lo, hi) == \A k \in (lo + 1)..hi : sh[k][2]
NoneMarked(sh, lo, hi) == \A k \in (lo + 1)..hi : ~sh[k][2]

\* the characters lo+1..hi of the shown sequence sh are the substring s[lo:hi]
Holds(sh, s, lo, hi) ==
  /\ hi <= Len(sh)
  /\ \A k \in (lo + 1)..hi : sh[k][1] = s[k]

DiffTags ==
  LET ocs == get_opcodes(left, right)
  IN  {ocs[n][1] : n \in 1..Len(ocs)}

(***************************************************************************)
(* C14: in the character diff of two different texts an Equal range is     *)
(* copied unmarked into both renderings, a Delete range appears, marked,   *)
(* only in the left rendering, an Insert range appears, marked, only in    *)
(* the right rendering, and a Replace range appears marked in both, the    *)
(* left one holding the old substring and the right one the new one.       *)
(***************************************************************************)
C14_RangesMarked ==
  (Rendered /\ left # right) =>
    LET lsh == Shown(out[1])
        rsh == Shown(out[2])
        ocs == get_opcodes(left, right)
    IN  /\ Len(lsh) = Len(left)
        /\ Len(rsh) = Len(right)
        /\ \A n \in 1..Len(ocs) :
             LET oc == ocs[n]
                 i1 == oc[2]
                 i2 == oc[3]
                 j1 == oc[4]
                 j2 == oc[5]
             IN  /\ Holds(lsh, left, i1, i2)
                 /\ Holds(rsh, right, j1, j2)
                 /\ oc[1] = "equal" =>
                      NoneMarked(lsh, i1, i2) /\ NoneMarked(rsh, j1, j2)
                 /\ oc[1] = "delete" => AllMarked(lsh, i1, i2) /\ j1 = j2
                 /\ oc[1] = "insert" => AllMarked(rsh, j1, j2) /\ i1 = i2
                 /\ oc[1] = "replace" =>
                      /\ i1 < i2 /\ j1 < j2
                      /\ AllMarked(lsh, i1, i2)
                      /\ AllMarked(rsh, j1, j2)

\* a diff with a Replace, an Equal and a Delete range
C14_Witness ==
  /\ Rendered
  /\ {"replace", "equal", "delete"} \subseteq DiffTags
  /\ ShownText(out[1]) = left
  /\ LET lsh == Shown(out[1])
     IN  /\ \E k \in 1..Len(left) : lsh[k][2]
         /\ \E k \in 1..Len(left) : ~lsh[k][2]

\* a rendering without any tag
NoMarkup(r) == \A k \in 1..Len(r) : r[k] # "<"

(***************************************************************************)
(* C15: the character diff of a text with itself reports no change:        *)
(* highlight_diff(s, s) returns changed = false with two escaped copies of *)
(* s and no change markup, and changed is true exactly when the two texts  *)
(* differ; get_diff_html reports 'same' exactly when the texts are equal,  *)
(* and no markup then.                                                     *)
(***************************************************************************)
C15_NoChangeIffEqual ==
  pc = "rendered" =>
    /\ variant = "highlight_diff" =>
         /\ out[3] = (left # right)
         /\ left = right =>
              /\ out[1] = escape(left)
              /\ out[2] = escape(left)
              /\ NoMarkup(out[1])
              /\ NoMarkup(out[2])
    /\ variant = "get_diff_html" =>
         /\ out[2] = (IF left = right THEN "same" ELSE "different")
         /\ left = right => out[1] = NoneText

\* a text with escaped characters rendered against itself
C15_Witness ==
  /\ Rendered
  /\ left = right
  /\ Len(left) >= 2
  /\ \E k \in 1..Len(left) : left[k] = "<"
  /\ ~out[3]
  /\ Len(out[1]) > Len(left)

(***************************************************************************)
(* Vocabulary of the properties of the similarity ratio.                   *)
(***************************************************************************)
Scored == pc = "scored" /\ variant = "ratio"

\* the ratio of the same two texts taken in the other order
Swapped == ratio(right, left)

IsZero(r) == r[1] = 0
IsOne(r) == r[1] = r[2]

C17_RatioRange ==
  Scored =>
    /\ out[2] > 0
    /\ 0 <= out[1]
    /\ out[1] <= out[2]
    /\ left = right <=> IsOne(out)
    /\ (left = <<>> /\ right = <<>>) => out = <<1, 1>>

\* the ratio of a non-empty text and itself
C17_Witness ==
  /\ Scored
  /\ left = right
  /\ Len(left) >= 2
  /\ \E k, m \in 1..Len(left) : left[k] # left[m]
  /\ out = <<2 * Len(left), 2 * Len(left)>>

(***************************************************************************)
(* C18: the modification threshold is the user's setting: with the slider  *)
(* at t, a same-offset pair of a Replace block whose similarity is below t *)
(* is reported as a Deleted op followed by an Added op and a pair whose    *)
(* similarity is above t as one Modified op, for every t of the slider.    *)
(***************************************************************************)
C18_SliderIsThreshold ==
  (pc = "aligned" /\ variant = "streamlit") =>
    \A pr \in ReplacePairs :
      LET r == ratio(p1[pr[1]], p2[pr[2]])
      IN  /\ RatioGT(st_min_similarity, r) =>
               EmittedDeletedAdded(pr[1], pr[2]) /\ ~EmittedModified(pr[1], pr[2])
          /\ RatioGT(r, st_min_similarity) =>
               EmittedModified(pr[1], pr[2]) /\ ~EmittedDeletedAdded(pr[1], pr[2])

(***************************************************************************)
(* Vocabulary of the properties of the novelty classifier.                 *)
(***************************************************************************)
Classified == pc = "classified" /\ variant = "is_new"

Segments == split_sentences(right)

\* the segments of at least 10 normalized characters, and those of them
\* found in the baseline
Counted == {m \in 1..Len(Segments) : Len(normalize(Segments[m])) >= 10}
Found == {m \in Counted : sentence_matched(Segments[m], p1)}

\* the decision by sentences: not new with confidence 1.0 without a counted
\* segment, else new exactly when found/counted is below 0.5, with that
\* ratio as the confidence
SentenceVerdict ==
  IF Counted = {} THEN <<FALSE, <<1, 1>>>>
  ELSE <<2 * Cardinality(Found) < Cardinality(Counted),
         <<Cardinality(Found), Cardinality(Counted)>>>>

ExactKey == normalize(right) \in reference_index(p1)

ContainmentMatch ==
  \E n \in 1..Len(p1) :
    \/ contained(normalize(right), normalize(p1[n]))
    \/ contained(normalize(p1[n]), normalize(right))

(***************************************************************************)
(* C19 as stated: is_new(p) is not new with confidence 1.0 when p has no   *)
(* sentence segment of at least 10 normalized characters; otherwise p is   *)
(* new exactly when matched_sentences / total_sentences is strictly below  *)
(* 0.5 and that ratio is the confidence, the shorter segments left out of  *)
(* the denominator.                                                        *)
(***************************************************************************)
C19_SentenceRuleAlways ==
  Classified => out = SentenceVerdict

(***************************************************************************)
(* C19 amended: the sentence rule decides the paragraphs whose key is      *)
(* neither in the reference set nor a substring or superstring of a        *)
(* baseline paragraph's key; a paragraph whose key is in the reference set *)
(* is not new with confidence 1.0, and one whose key contains or is        *)
(* contained in a baseline key is not new with confidence 0.9.             *)
(***************************************************************************)
C19_SentenceRuleAfterKeys ==
  Classified =>
    IF ExactKey THEN out = <<FALSE, <<1, 1>>>>
    ELSE IF ContainmentMatch THEN out = <<FALSE, <<9, 10>>>>
    ELSE out = SentenceVerdict

\* a paragraph of three segments, one under 10 characters, one of the two
\* others found in the baseline: ratio 1/2, not new
C19_Witness ==
  /\ Classified
  /\ ~ExactKey
  /\ ~ContainmentMatch
  /\ Len(Segments) = 3
  /\ Cardinality(Counted) = 2
  /\ Cardinality(Found) = 1
  /\ out = <<FALSE, <<1, 2>>>>

PairScript(k) ==
  IF variant = "cli"
  THEN compare_paragraphs(c1[matched[k][1] + 1].paragraphs,
                          c2[matched[k][2] + 1].paragraphs, DefaultMinSimilarity)
  ELSE st_compare_paragraphs(c1[matched[k][1] + 1].paragraphs,
                             c2[matched[k][2] + 1].paragraphs)

\* what row k of the chapter pairings contributes to the total of a type
Contribution(k, type) ==
  IF matched[k][1] = NoneIdx
  THEN IF type = "added" THEN Len(c2[matched[k][2] + 1].paragraphs) ELSE 0
  ELSE IF matched[k][2] = NoneIdx
  THEN IF type = "deleted" THEN Len(c1[matched[k][1] + 1].paragraphs) ELSE 0
  ELSE count_type(PairScript(k), type)

RECURSIVE SumOfPairings(_, _)
SumOfPairings(k, type) ==
  IF k = 0 THEN 0 ELSE SumOfPairings(k - 1, type) + Contribution(k, type)

TotalsOfAllPairings ==
  [total_added |-> SumOfPairings(Len(matched), "added"),
   total_deleted |-> SumOfPairings(Len(matched), "deleted"),
   total_modified |-> SumOfPairings(Len(matched), "modified")]

\* C21: the summary totals of a report are the sums over all chapter
\* pairings of the two books (an unmatched new chapter gives its paragraphs
\* to added, an unmatched old chapter to deleted, a matched pair the counts
\* of its added, deleted and modified ops), in the Streamlit app whichever
\* chapter is selected in the chapter filter.
C21_TotalsOverAllPairings ==
  pc = "reported" => out.totals = TotalsOfAllPairings

\* the same totals in the reports that filter no chapter: the HTML report
\* of the CLI and the app with all chapters selected
C21_UnfilteredTotals ==
  (pc = "reported" /\ out.selected_chapter = AllChapters)
    => out.totals = TotalsOfAllPairings

C21_FilteredApp ==
  /\ pc = "reported"
  /\ variant = "streamlit"
  /\ out.selected_chapter # AllChapters
  /\ out.totals # TotalsOfAllPairings

(***************************************************************************)
(* The order of an edit script                                             *)
(***************************************************************************)
\* the old indices, the new indices of the ops that have one, in the order
\* of the script
OldIndices ==
  LET with == SelectSeq(EditScript, LAMBDA op : op.old_idx # NoneIdx)
  IN  [n \in 1..Len(with) |-> with[n].old_idx]

NewIndices ==
  LET with == SelectSeq(EditScript, LAMBDA op : op.new_idx # NoneIdx)
  IN  [n \in 1..Len(with) |-> with[n].new_idx]

\* C22: reading an edit script front to back, the old indices of the ops
\* that have one are exactly 1, 2, ..., len(old) in increasing order and the
\* new indices of the ops that have one are exactly 1, 2, ..., len(new) in
\* increasing order, also inside the Replace blocks where the Deleted and
\* Added ops of dissimilar pairs are interleaved.
C22_IndexOrder ==
  pc = "aligned" =>
    /\ OldIndices = [i \in 1..Len(p1) |-> i]
    /\ NewIndices = [j \in 1..Len(p2) |-> j]

\* a Replace block of two dissimilar pairs: Deleted, Added, Deleted, Added
\* follow each other in the script
C22_Witness ==
  /\ pc = "aligned"
  /\ variant = "cli"
  /\ \E pr \in ReplacePairs :
       /\ <<pr[1] + 1, pr[2] + 1>> \in ReplacePairs
       /\ \E n \in 1..(Len(aligned) - 3) :
            /\ EditScript[n].kind = "Deleted"
            /\ EditScript[n].old_idx = pr[1]
            /\ EditScript[n + 1].kind = "Added"
            /\ EditScript[n + 1].new_idx = pr[2]
            /\ EditScript[n + 2].kind = "Deleted"
            /\ EditScript[n + 2].old_idx = pr[1] + 1
            /\ EditScript[n + 3].kind = "Added"
            /\ EditScript[n + 3].new_idx = pr[2] + 1

(***************************************************************************)
(* Identical paragraphs in an edit script                                  *)
(***************************************************************************)
\* the old block and the new block of every Replace opcode share no equal
\* element
ReplaceBlocksDisjoint ==
  \A oc \in ReplaceBlocks :
    \A i \in (oc[2] + 1)..oc[3] : \A j \in (oc[4] + 1)..oc[5] : p1[i] # p2[j]

\* C23: a Modified op never pairs two literally identical paragraphs: the
\* old block and the new block of a Replace opcode share no equal element,
\* every Modified op has an old text different from its new text and, where
\* it carries a ratio, a ratio strictly below 1; identical paragraphs are
\* only ever reported as Same.
C23_ModifiedNeverIdentical ==
  pc = "aligned" =>
    /\ ReplaceBlocksDisjoint
    /\ \A n \in 1..Len(aligned) :
         /\ EditScript[n].kind = "Modified" =>
              /\ EditScript[n].old # EditScript[n].new
              /\ CarriedRatio(n) # <<>> => CarriedRatio(n)[1] < CarriedRatio(n)[2]
         /\ EditScript[n].old = EditScript[n].new => EditScript[n].kind = "Same"

\* a Modified op of compare_paragraphs that pairs two identical paragraphs
\* and carries the ratio 1
C23_IdenticalModified ==
  /\ pc = "aligned"
  /\ variant = "cli"
  /\ \E n \in 1..Len(aligned) :
       /\ EditScript[n].kind = "Modified"
       /\ EditScript[n].old = EditScript[n].new
       /\ CarriedRatio(n)[1] = CarriedRatio(n)[2]

====
